---- MODULE Spec2Model ----
(***************************************************************************)
(* Verification model of the OllamaFixer request layer.                    *)
(*                                                                         *)
(* Part 1: the retry engine, RetryManager (utils/retry.ts).  One           *)
(* RetryManager instance holds the options read from configuration at      *)
(* construction; every call of withRetry is an async function whose        *)
(* suspension points (await operation(), await setTimeout) separate the    *)
(* actions below.                                                          *)
(*                                                                         *)
(* Part 2: the model client.  One invocation of the chat handler's         *)
(* getOllamaResponse (chatProvider.ts) or of the fix command's             *)
(* getCorrectionFromOllama (extension.ts), with the configuration store,   *)
(* the user's answers and the server's responses as its environment.       *)
(***************************************************************************)
EXTENDS Integers, Sequences, FiniteSets, TLC

(***************************************************************************)
(* Bounds of the model.                                                    *)
(***************************************************************************)
MaxRetriesBound == 3
MaxRetriesConc == 2
MaxDepth == 2

(* two withRetry calls on the one RetryManager instance *)
Calls == {1, 2}

(***************************************************************************)
(* Exact rational numbers <<numerator, denominator>> for delays: the       *)
(* multiplier is a fraction (1.5 = 3/2).                                   *)
(***************************************************************************)
Rat(n, d) == <<n, d>>
RatMul(a, b) == <<a[1] * b[1], a[2] * b[2]>>
RatEq(a, b) == a[1] * b[2] = b[1] * a[2]

RECURSIVE RatPow(_, _)
RatPow(m, n) == IF n = 0 THEN Rat(1, 1) ELSE RatMul(RatPow(m, n - 1), m)

Min(a, b) == IF a <= b THEN a ELSE b

(***************************************************************************)
(* Failures an operation can raise.  An AxiosError carries a response      *)
(* (with its HTTP status) or, without a response, a transport code.        *)
(***************************************************************************)
HttpError(s) == [cls |-> "AxiosError", response |-> TRUE, status |-> s, code |-> "ERR_BAD_RESPONSE"]
NetError(code) == [cls |-> "AxiosError", response |-> FALSE, status |-> 0, code |-> code]
PlainError == [cls |-> "Error", response |-> FALSE, status |-> 0, code |-> ""]
TypeError == [cls |-> "TypeError", response |-> FALSE, status |-> 0, code |-> ""]
UndefinedError == [cls |-> "undefined", response |-> FALSE, status |-> 0, code |-> ""]

(* the value `this` has in a plain function call, and in a method call *)
ThisUndefined == "undefined"
ThisManager == "RetryManager"

Returned(b) == [threw |-> FALSE, value |-> b]
Threw == [threw |-> TRUE, value |-> FALSE]

retryableStatusCodes == {408, 429, 500, 502, 503, 504}
retryableCodes == {"ETIMEDOUT", "ECONNRESET", "ECONNREFUSED"}

(***************************************************************************)
(* RetryManager.defaultIsRetryable, evaluated with the given `this`.       *)
(* Every path of the method reads this.logger before it returns, so         *)
(* without a receiver the read raises a TypeError.                         *)
(***************************************************************************)
defaultIsRetryable(self, error) ==
    IF error.cls = "AxiosError"
    THEN IF ~error.response
         THEN IF self = ThisUndefined THEN Threw
              ELSE Returned(error.code \in retryableCodes)
         ELSE IF self = ThisUndefined THEN Threw
              ELSE Returned(error.status \in retryableStatusCodes)
    ELSE IF self = ThisUndefined THEN Threw ELSE Returned(FALSE)

(***************************************************************************)
(* The predicates a caller can pass as isRetryable.  "default" is the      *)
(* default parameter value this.defaultIsRetryable: the method taken off   *)
(* the instance, unbound.  The others are caller-written functions.        *)
(***************************************************************************)
Predicates == {"default", "always", "never", "transient"}

isRetryable(p, error) ==
    CASE p = "default" -> defaultIsRetryable(ThisUndefined, error)
      [] p = "always" -> Returned(TRUE)
      [] p = "never" -> Returned(FALSE)
      [] OTHER -> defaultIsRetryable(ThisManager, error)

(***************************************************************************)
(* The operation passed to withRetry: its first k invocations fail (the    *)
(* first with `first`, the later ones with `rest`), every later one        *)
(* succeeds.  Invocation n that succeeds returns Value(n).                 *)
(***************************************************************************)
RunFailures ==
    {HttpError(503), HttpError(401), NetError("ECONNREFUSED"),
     NetError("ECONNABORTED"), PlainError}

Scripts == [first : RunFailures, rest : RunFailures, k : 0..(MaxRetriesBound + 1)]

ConcFailures == {HttpError(503), HttpError(401)}

ConcScripts ==
    {s \in [first : ConcFailures, rest : ConcFailures, k : 0..(MaxRetriesConc + 1)] :
        s.first = s.rest}

Fails(script, n) == n <= script.k
FailureOf(script, n) == IF n = 1 THEN script.first ELSE script.rest

NoOutcome == [kind |-> "none", val |-> 0, err |-> UndefinedError]
Value(n) == [kind |-> "value", val |-> n, err |-> UndefinedError]
Rejection(e) == [kind |-> "error", val |-> 0, err |-> e]

(***************************************************************************)
(* Configuration values the RetryManager constructor can read.  The        *)
(* settings schema asks for maxRetries >= 0, the store does not enforce it.*)
(***************************************************************************)
ConfigMultipliers == {Rat(3, 2), Rat(2, 1), Rat(1, 1)}
ConfigDelays == {1000, 250}

ConfigOptions ==
    [maxRetries : (-1)..MaxRetriesBound, retryDelay : ConfigDelays,
     backoffMultiplier : ConfigMultipliers]

ConcOptions ==
    [maxRetries : 0..MaxRetriesConc, retryDelay : {1000},
     backoffMultiplier : {Rat(3, 2), Rat(2, 1)}]

VARIABLES
    options,      \* RetryManager.options, set by the constructor
    live,         \* the calls of withRetry that are made
    opScript,     \* per call: the operation argument
    predArg,      \* per call: the isRetryable argument
    pc,           \* per call: where the async function is suspended
    attempt,      \* per call: the loop variable
    delay,        \* per call: the local `delay`
    lastError,    \* per call: the local `lastError`
    pending,      \* per call: invocations of operation() not yet settled
    timer,        \* per call: delays of the timers set and not yet fired
    settled,      \* per call: what the promise of withRetry settled with
    opCalls,      \* per call: how often operation() was invoked
    waited,       \* per call: the delays that were waited, in order
    predOut       \* per call: outcome of the last isRetryable(error)

VARIABLES
    caller,       \* which entry point is invoked: "chat", "fix" or "none"
    config,       \* the configuration store (section ollamaCodeFixer)
    fpc,          \* where the invocation is suspended
    depth,        \* how often getOllamaResponse re-invoked itself
    loc,          \* the locals of the current invocation
    net,          \* the HTTP requests dispatched, in order
    ui,           \* what was shown to the user and started for them
    ret,          \* what the invocation returned to its caller
    cmd,          \* the handler of the fix command: position and locals
    host,         \* the workbench: editors, selections, documents, settings
    view,         \* the chat panel and the handler of its message
    bar,          \* the status bar item and the status checks
    tx            \* the text functions: arguments and results

retryVars ==
    <<options, live, opScript, predArg, pc, attempt, delay, lastError, pending,
      timer, settled, opCalls, waited, predOut>>

editorVars == <<cmd, host>>

sideVars == <<view, bar, tx>>

clientVars ==
    <<caller, config, fpc, depth, loc, net, ui, ret, cmd, host, view, bar, tx>>

(* the state of the calls of withRetry, without the options of the instance *)
callVars ==
    <<live, opScript, predArg, pc, attempt, delay, lastError, pending, timer,
      settled, opCalls, waited, predOut>>

vars ==
    <<options, live, opScript, predArg, pc, attempt, delay, lastError, pending,
      timer, settled, opCalls, waited, predOut, caller, config, fpc, depth, loc,
      net, ui, ret, cmd, host, view, bar, tx>>

IdleCalls ==
    /\ pc = [c \in Calls |-> "idle"]
    /\ attempt = [c \in Calls |-> 0]
    /\ delay = [c \in Calls |-> Rat(0, 1)]
    /\ lastError = [c \in Calls |-> UndefinedError]
    /\ pending = [c \in Calls |-> {}]
    /\ timer = [c \in Calls |-> {}]
    /\ settled = [c \in Calls |-> NoOutcome]
    /\ opCalls = [c \in Calls |-> 0]
    /\ waited = [c \in Calls |-> <<>>]
    /\ predOut = [c \in Calls |-> "none"]

NoLocals ==
    [baseApiUrl |-> [scheme |-> "none", rest |-> ""], modelName |-> "",
     availableModels |-> {}, check |-> "none", choice |-> "none",
     newModel |-> "", picked |-> "", sent |-> FALSE, postCalls |-> 0,
     served |-> NoOutcome, body |-> "none", entries |-> <<>>]

NoReturn == [kind |-> "none", err |-> UndefinedError, val |-> <<>>]

NoMessage == [form |-> "none", status |-> 0]

NothingShown ==
    [prompts |-> 0, picks |-> 0, warnings |-> 0, errors |-> 0, installs |-> 0,
     pull |-> "none", writes |-> 0, message |-> NoMessage]

Editors == {"e1", "e2"}
Documents == {"d1", "d2"}
Selections == {"empty", "s1", "s2"}

(* the fix command is not running *)
NoCommand ==
    [pc |-> "idle", editor |-> "none", document |-> "none", selection |-> "empty",
     cancelled |-> FALSE, cancelAt |-> "none", cancelOps |-> 0, notes |-> {},
     target |-> "none"]

(* a workbench with one editor, showing d1 with a selection *)
OneEditor ==
    [active |-> "e1",
     document |-> [e \in Editors |-> IF e = "e1" THEN "d1" ELSE "d2"],
     selection |-> [e \in Editors |-> "s1"],
     text |-> [d \in Documents |-> "original"],
     settingsEdited |-> FALSE]

(* no chat panel was created *)
NoView == [panel |-> "none", hpc |-> "idle", posted |-> <<>>, raised |-> "none"]

(* the status bar item as activate creates it; no check was started *)
NoBar == [text |-> "Checking", started |-> <<>>, reported |-> <<>>]

(* no text function is applied *)
NoText ==
    [op |-> "none", raw |-> <<>>, prefix |-> <<>>, suffix |-> <<>>,
     snippet |-> <<>>, language |-> <<>>, out |-> <<>>, again |-> <<>>]

(* show() created the panel; the webview sent no message yet *)
OpenView == [NoView EXCEPT !.panel = "open"]

(***************************************************************************)
(* this._panel.webview.postMessage(m): the message is posted to the open   *)
(* panel; when _panel is undefined the property access throws a TypeError. *)
(***************************************************************************)
PostMessage_Optional(v, m) ==
    [view |-> IF v.panel = "open" THEN [v EXCEPT !.posted = Append(@, m)] ELSE v,
     threw |-> FALSE]

PostMessage(v, m) ==
    IF v.panel = "open"
    THEN [view |-> [v EXCEPT !.posted = Append(@, m)], threw |-> FALSE]
    ELSE [view |-> v, threw |-> TRUE]

(* handleChatMessage up to its await: the user message and loading = true *)
MessageReceived(v) ==
    [PostMessage(PostMessage(v, "user").view, "loadingOn").view
        EXCEPT !.hpc = "awaitResponse"]

(* mutant: there is no finally block *)
Responded_NoFinally(v) ==
    LET a == PostMessage(v, "assistant")
        b == IF a.threw THEN PostMessage(a.view, "error") ELSE a
    IN  [b.view EXCEPT !.hpc = IF b.threw THEN "rejected" ELSE "done",
                       !.raised = IF b.threw THEN "TypeError" ELSE "none"]

(***************************************************************************)
(* handleChatMessage after its await: the try block posts the response as  *)
(* the assistant's message, the catch block posts an error message for     *)
(* what the try block threw, the finally block posts loading = false; what *)
(* the catch or the finally block throws rejects the handler.              *)
(***************************************************************************)
Responded(v) ==
    LET a == PostMessage(v, "assistant")
        b == IF a.threw THEN PostMessage(a.view, "error") ELSE a
        c == PostMessage(b.view, "loadingOff")
    IN  [c.view EXCEPT !.hpc = IF b.threw \/ c.threw THEN "rejected" ELSE "done",
                       !.raised = IF b.threw \/ c.threw THEN "TypeError"
                                  ELSE "none"]

(* the handler continues once getOllamaResponse has returned *)
HandlerAfter(v, who, p) ==
    IF who = "chat" /\ p = "returned" /\ v.hpc = "awaitResponse"
    THEN Responded(v) ELSE v

SideIdle == view = NoView /\ bar = NoBar /\ tx = NoText

(* no entry point of the client is invoked *)
ClientIdle ==
    /\ caller = "none"
    /\ config = [ollamaApiUrl |-> [scheme |-> "http", rest |-> "localhost:11434"],
                 userModel |-> "unset", workspaceModel |-> "unset",
                 enableNotifications |-> TRUE, retry |-> options]
    /\ cmd = NoCommand
    /\ host = OneEditor
    /\ SideIdle
    /\ fpc = "idle"
    /\ depth = 0
    /\ loc = NoLocals
    /\ net = <<>>
    /\ ui = NothingShown
    /\ ret = NoReturn

(* one call of withRetry, with any operation and any predicate *)
Init ==
    /\ options \in ConfigOptions
    /\ live = {1}
    /\ opScript \in [Calls -> Scripts]
    /\ opScript[2] = [first |-> PlainError, rest |-> PlainError, k |-> 0]
    /\ predArg \in [Calls -> Predicates]
    /\ predArg[2] = "default"
    /\ IdleCalls
    /\ ClientIdle

(* two calls of withRetry on the same instance *)
InitConc ==
    /\ options \in ConcOptions
    /\ live = Calls
    /\ opScript \in [Calls -> ConcScripts]
    /\ predArg \in [Calls -> {"default", "always"}]
    /\ IdleCalls
    /\ ClientIdle

(* mutant: the budget counts attempts, not retries *)
LoopGuard_OffByOne(a) == a <= options.maxRetries

(* mutant: the loop is left once the fix command is cancelled *)
StartAttempt_Cancellable(c, a, le) ==
    /\ attempt' = [attempt EXCEPT ![c] = a]
    /\ IF a <= options.maxRetries + 1 /\ ~cmd.cancelled
       THEN /\ pending' = [pending EXCEPT ![c] = @ \cup {a}]
            /\ opCalls' = [opCalls EXCEPT ![c] = @ + 1]
            /\ pc' = [pc EXCEPT ![c] = "awaitOp"]
            /\ settled' = settled
       ELSE /\ pc' = [pc EXCEPT ![c] = "rejected"]
            /\ settled' = [settled EXCEPT ![c] = Rejection(le)]
            /\ UNCHANGED <<pending, opCalls>>

(***************************************************************************)
(* The loop head for attempt a: either operation() is invoked and awaited, *)
(* or the loop is left and lastError is thrown.                            *)
(***************************************************************************)
LoopGuard(a) == a <= options.maxRetries + 1

StartAttempt(c, a, le) ==
    /\ attempt' = [attempt EXCEPT ![c] = a]
    /\ IF LoopGuard(a)
       THEN /\ pending' = [pending EXCEPT ![c] = @ \cup {a}]
            /\ opCalls' = [opCalls EXCEPT ![c] = @ + 1]
            /\ pc' = [pc EXCEPT ![c] = "awaitOp"]
            /\ settled' = settled
       ELSE /\ pc' = [pc EXCEPT ![c] = "rejected"]
            /\ settled' = [settled EXCEPT ![c] = Rejection(le)]
            /\ UNCHANGED <<pending, opCalls>>

InitialDelay == Rat(options.retryDelay, 1)

(* withRetry is called: runs to the first await *)
Call(c) ==
    /\ c \in live
    /\ pc[c] = "idle"
    /\ lastError' = [lastError EXCEPT ![c] = UndefinedError]
    /\ delay' = [delay EXCEPT ![c] = InitialDelay]
    /\ StartAttempt(c, 1, UndefinedError)
    /\ UNCHANGED <<options, live, opScript, predArg, timer, waited, predOut>>
    /\ UNCHANGED clientVars

(* mutant: the result is not returned and the loop goes round again *)
ReturnResult_FallThrough(c, n) ==
    /\ settled' = settled
    /\ attempt' = [attempt EXCEPT ![c] = @ + 1]
    /\ IF attempt[c] + 1 <= options.maxRetries + 1
       THEN /\ pending' = [pending EXCEPT ![c] = (@ \ {n}) \cup {attempt[c] + 1}]
            /\ opCalls' = [opCalls EXCEPT ![c] = @ + 1]
            /\ pc' = [pc EXCEPT ![c] = "awaitOp"]
       ELSE /\ pending' = [pending EXCEPT ![c] = @ \ {n}]
            /\ pc' = [pc EXCEPT ![c] = "rejected"]
            /\ UNCHANGED opCalls

(* return result: the promise of withRetry resolves with attempt n's value *)
ReturnResult(c, n) ==
    /\ pending' = [pending EXCEPT ![c] = @ \ {n}]
    /\ settled' = [settled EXCEPT ![c] = Value(n)]
    /\ pc' = [pc EXCEPT ![c] = "resolved"]
    /\ UNCHANGED <<attempt, opCalls>>

(* the awaited operation() resolves *)
OpResolves(c) ==
    /\ pc[c] = "awaitOp"
    /\ \E n \in pending[c] :
        /\ ~Fails(opScript[c], n)
        /\ ReturnResult(c, n)
    /\ UNCHANGED <<options, live, opScript, predArg, delay, lastError, timer,
                   waited, predOut>>
    /\ UNCHANGED clientVars

(* lastError = error *)
CaughtError(le, e) == e

WithinBudget(a) == a <= options.maxRetries

(***************************************************************************)
(* What the catch block does with the failure e of attempt a:              *)
(*   "retry"  isRetryable(e) returned true within the budget;              *)
(*   "last"   the else branch: break, then throw lastError;                *)
(*   "pred"   isRetryable(e) itself threw, in the condition or in the      *)
(*            argument of the else branch's log call.                      *)
(***************************************************************************)
CatchDecision(p, a, e) ==
    LET r == isRetryable(p, e) IN
    IF WithinBudget(a)
    THEN IF r.threw THEN "pred" ELSE IF r.value THEN "retry" ELSE "last"
    ELSE IF r.threw THEN "pred" ELSE "last"

PredOutcome(p, e) ==
    LET r == isRetryable(p, e) IN
    IF r.threw THEN "threw" ELSE IF r.value THEN "true" ELSE "false"

(* mutant: the timer is set but not awaited, the next attempt starts at once *)
Backoff_NoAwait(c, n) ==
    /\ pending' = [pending EXCEPT ![c] = (@ \ {n}) \cup {attempt[c] + 1}]
    /\ timer' = [timer EXCEPT ![c] = @ \cup {delay[c]}]
    /\ pc' = [pc EXCEPT ![c] = "awaitOp"]
    /\ attempt' = [attempt EXCEPT ![c] = @ + 1]
    /\ opCalls' = [opCalls EXCEPT ![c] = @ + 1]
    /\ delay' = [delay EXCEPT ![c] = RatMul(@, options.backoffMultiplier)]
    /\ UNCHANGED <<settled, waited>>

(* await new Promise(resolve => setTimeout(resolve, delay)) *)
Backoff(c, n) ==
    /\ pending' = [pending EXCEPT ![c] = @ \ {n}]
    /\ timer' = [timer EXCEPT ![c] = @ \cup {delay[c]}]
    /\ pc' = [pc EXCEPT ![c] = "awaitDelay"]
    /\ UNCHANGED <<attempt, delay, settled, opCalls, waited>>

(* an exception leaves withRetry: its promise rejects *)
Reject(c, n, e) ==
    /\ pending' = [pending EXCEPT ![c] = @ \ {n}]
    /\ pc' = [pc EXCEPT ![c] = "rejected"]
    /\ settled' = [settled EXCEPT ![c] = Rejection(e)]
    /\ UNCHANGED <<attempt, delay, timer, opCalls, waited>>

(* the awaited operation() rejects: the catch block *)
OpRejects(c) ==
    /\ pc[c] = "awaitOp"
    /\ \E n \in pending[c] :
        /\ Fails(opScript[c], n)
        /\ LET e == FailureOf(opScript[c], n)
               le == CaughtError(lastError[c], e)
               d == CatchDecision(predArg[c], attempt[c], e)
           IN  /\ lastError' = [lastError EXCEPT ![c] = le]
               /\ predOut' = [predOut EXCEPT ![c] = PredOutcome(predArg[c], e)]
               /\ CASE d = "retry" -> Backoff(c, n)
                    [] d = "pred" -> Reject(c, n, TypeError)
                    [] OTHER -> Reject(c, n, le)
    /\ UNCHANGED <<options, live, opScript, predArg>>
    /\ UNCHANGED clientVars

(* mutant: the delay is not multiplied *)
NextDelay_NoBackoff(d) == d

(* delay *= this.options.backoffMultiplier *)
NextDelay(d) == RatMul(d, options.backoffMultiplier)

(* mutant: the delay counter is a field of the instance, shared by its calls *)
DelayAfterWait_Shared(c) ==
    [x \in Calls |-> RatMul(delay[c], options.backoffMultiplier)]

DelayAfterWait(c) == [delay EXCEPT ![c] = NextDelay(@)]

(* the timer fires: the delay is multiplied and the loop goes round *)
TimerFires(c) ==
    /\ pc[c] = "awaitDelay"
    /\ \E d \in timer[c] :
        /\ timer' = [timer EXCEPT ![c] = @ \ {d}]
        /\ waited' = [waited EXCEPT ![c] = Append(@, d)]
    /\ delay' = DelayAfterWait(c)
    /\ StartAttempt(c, attempt[c] + 1, lastError[c])
    /\ UNCHANGED <<options, live, opScript, predArg, lastError, predOut>>
    /\ UNCHANGED clientVars

Next ==
    \E c \in Calls :
        \/ Call(c)
        \/ OpResolves(c)
        \/ OpRejects(c)
        \/ TimerFires(c)

Spec == Init /\ [][Next]_vars

SpecConc == InitConc /\ [][Next]_vars

Terminal(c) == pc[c] \in {"resolved", "rejected"}

TypeOK ==
    /\ options \in ConfigOptions
    /\ live \subseteq Calls
    /\ pc \in [Calls -> {"idle", "awaitOp", "awaitDelay", "resolved", "rejected"}]
    /\ \A c \in Calls : attempt[c] \in 0..(MaxRetriesBound + 2)
    /\ \A c \in Calls : opCalls[c] \in 0..(MaxRetriesBound + 2)
    /\ predOut \in [Calls -> {"none", "threw", "true", "false"}]

(***************************************************************************)
(* Vocabulary of the claims about the retry engine.                        *)
(***************************************************************************)
MaxRetries == options.maxRetries

(* the failures the specification calls transient *)
IsTransient(e) ==
    /\ e.cls = "AxiosError"
    /\ \/ e.response /\ e.status \in {408, 429, 500, 502, 503, 504}
       \/ ~e.response /\ e.code \in {"ETIMEDOUT", "ECONNRESET", "ECONNREFUSED"}

(* initialDelay * backoffMultiplier^(i-1) *)
ExpectedDelay(i) ==
    RatMul(Rat(options.retryDelay, 1), RatPow(options.backoffMultiplier, i - 1))

(* the predicate given to call c returns true for every failure of its operation *)
FailsRetryably(c) ==
    \A i \in 1..opScript[c].k :
        isRetryable(predArg[c], FailureOf(opScript[c], i)) = Returned(TRUE)

(* C1: with the default predicate and an operation whose every attempt
   fails with a transient failure, withRetry invokes the operation exactly
   maxRetries+1 times, waits exactly maxRetries delays and rejects with no
   timer left. *)
C1_BudgetUsedUp ==
    \A c \in live :
        ( /\ Terminal(c)
          /\ predArg[c] = "default"
          /\ MaxRetries >= 0
          /\ opScript[c].k >= MaxRetries + 1
          /\ IsTransient(opScript[c].first)
          /\ IsTransient(opScript[c].rest) )
        => /\ pc[c] = "rejected"
           /\ opCalls[c] = MaxRetries + 1
           /\ Len(waited[c]) = MaxRetries
           /\ timer[c] = {}

(* C2: maxRetries=3, delay 1000, multiplier 1.5, default predicate, the
   operation fails with status 503 three times and then succeeds: withRetry
   resolves with the value of the fourth invocation, after exactly 4
   invocations and after waiting 1000, 1500 and 2250 ms in that order. *)
C2_Scenario503 ==
    \A c \in live :
        ( /\ Terminal(c)
          /\ predArg[c] = "default"
          /\ options = [maxRetries |-> 3, retryDelay |-> 1000,
                        backoffMultiplier |-> Rat(3, 2)]
          /\ opScript[c] = [first |-> HttpError(503), rest |-> HttpError(503),
                            k |-> 3] )
        => /\ settled[c] = Value(4)
           /\ opCalls[c] = 4
           /\ Len(waited[c]) = 3
           /\ RatEq(waited[c][1], Rat(1000, 1))
           /\ RatEq(waited[c][2], Rat(1500, 1))
           /\ RatEq(waited[c][3], Rat(2250, 1))

(* C3: with the default predicate, an operation whose first failure is not
   transient (HTTP 401, ...) is invoked exactly once, no delay is waited and
   withRetry rejects with that very failure, status included. *)
C3_FatalFailsOnce ==
    \A c \in live :
        ( /\ Terminal(c)
          /\ predArg[c] = "default"
          /\ MaxRetries >= 0
          /\ opScript[c].k >= 1
          /\ ~IsTransient(opScript[c].first) )
        => /\ opCalls[c] = 1
           /\ waited[c] = <<>>
           /\ settled[c] = Rejection(opScript[c].first)

(* C4: whenever withRetry rejects, it rejects with the failure raised by
   the last invocation of the operation. *)
C4_RejectsWithLastFailure ==
    \A c \in live :
        (pc[c] = "rejected" /\ MaxRetries >= 0)
        => /\ opCalls[c] >= 1
           /\ settled[c] = Rejection(FailureOf(opScript[c], opCalls[c]))

(* C5: the step in which an attempt of the operation succeeds resolves
   withRetry with that attempt's value, with no invocation in flight and no
   timer set; from then on the call invokes nothing and waits nothing. *)
C5_SuccessEndsCall ==
    [][\A c \in Calls :
        /\ \A n \in pending[c] \ pending'[c] :
              ~Fails(opScript[c], n)
              => /\ pc'[c] = "resolved"
                 /\ settled'[c] = Value(n)
                 /\ opCalls'[c] = opCalls[c]
                 /\ pending'[c] = {}
                 /\ timer'[c] = {}
        /\ pc[c] = "resolved"
              => /\ pc'[c] = "resolved"
                 /\ settled'[c] = settled[c]
                 /\ opCalls'[c] = opCalls[c]
                 /\ pending'[c] = {}
                 /\ timer'[c] = {}
                 /\ waited'[c] = waited[c]]_vars

(* C5 witness: a call resolved by its third invocation, after two failures *)
C5_Witness ==
    \E c \in live :
        /\ pc[c] = "resolved"
        /\ opCalls[c] = 3
        /\ settled[c] = Value(3)
        /\ Len(waited[c]) = 2

(* C6 as stated: an operation that fails retryably k times and then
   succeeds is invoked exactly min(k, maxRetries+1) times. *)
C6_MinKInvocations ==
    \A c \in live :
        (Terminal(c) /\ opScript[c].k >= 1 /\ FailsRetryably(c))
        => opCalls[c] = Min(opScript[c].k, MaxRetries + 1)

(* C6 amended: an operation whose first k invocations fail with failures
   for which the predicate given to withRetry returns true, and which then
   succeeds, is invoked exactly min(k+1, maxRetries+1) times; withRetry
   resolves exactly when k <= maxRetries. *)
C6_MinKPlusOneInvocations ==
    \A c \in live :
        (Terminal(c) /\ FailsRetryably(c))
        => /\ opCalls[c] = Min(opScript[c].k + 1, MaxRetries + 1)
           /\ pc[c] = "resolved" <=> opScript[c].k <= MaxRetries

(* C6 witness: two retryable failures, then success within the budget *)
C6_Witness ==
    \E c \in live :
        /\ pc[c] = "resolved"
        /\ FailsRetryably(c)
        /\ opScript[c].k = 2
        /\ opCalls[c] = 3
        /\ MaxRetries = 3

(* C7: the i-th delay a call waits, the one before attempt i+1, is
   initialDelay * backoffMultiplier^(i-1); a call waits at most maxRetries
   delays, and attempt i+1 is under way only after i delays. *)
C7_GeometricDelays ==
    \A c \in Calls :
        /\ \A i \in 1..Len(waited[c]) : RatEq(waited[c][i], ExpectedDelay(i))
        /\ \A d \in timer[c] : RatEq(d, ExpectedDelay(Len(waited[c]) + 1))
        /\ Len(waited[c]) + Cardinality(timer[c]) <= IF MaxRetries >= 0 THEN MaxRetries ELSE 0
        /\ pending[c] # {} => \A n \in pending[c] : Len(waited[c]) = n - 1

(* C7 witness: three delays waited with multiplier 1.5 *)
C7_Witness ==
    \E c \in live :
        /\ Len(waited[c]) = 3
        /\ options.backoffMultiplier = Rat(3, 2)
        /\ options.retryDelay = 1000
        /\ RatEq(waited[c][3], Rat(2250, 1))

(* C8: the default predicate, applied by withRetry to a failure, returns
   true when the failure is transient and false for every other failure. *)
C8_DefaultPredicateClassifies ==
    \A c \in live :
        (predArg[c] = "default" /\ predOut[c] # "none")
        => predOut[c] = IF IsTransient(lastError[c]) THEN "true" ELSE "false"

(* C9: at most one invocation of the operation is in flight per call, none
   while the call's timer is set; a new invocation starts only when none is
   in flight and, after the first, in the step in which the timer of the
   round fires. *)
C9_AttemptsSequential ==
    /\ [](\A c \in Calls :
            /\ Cardinality(pending[c]) <= 1
            /\ pending[c] # {} => timer[c] = {})
    /\ [][\A c \in Calls :
            opCalls'[c] # opCalls[c]
            => /\ opCalls'[c] = opCalls[c] + 1
               /\ pending[c] = {}
               /\ opCalls[c] >= 1
                  => /\ pc[c] = "awaitDelay"
                     /\ timer[c] # {}
                     /\ timer'[c] = {}
                     /\ Len(waited'[c]) = Len(waited[c]) + 1]_vars

(* C9 witness: the third attempt in flight after two delays *)
C9_Witness ==
    \E c \in live :
        /\ pc[c] = "awaitOp"
        /\ pending[c] = {3}
        /\ opCalls[c] = 3
        /\ Len(waited[c]) = 2

(* the invocations a call makes when it runs alone, from attempt a on *)
RECURSIVE SoloInvocations(_, _, _)
SoloInvocations(p, script, a) ==
    IF ~(a <= MaxRetries + 1) THEN a - 1
    ELSE IF ~Fails(script, a) THEN a
    ELSE IF a <= MaxRetries /\ isRetryable(p, FailureOf(script, a)) = Returned(TRUE)
         THEN SoloInvocations(p, script, a + 1)
         ELSE a

(* the other call of the instance can take its next step *)
CanProgress(d) ==
    /\ pc[d] = "idle" => ENABLED Call(d)
    /\ pc[d] = "awaitOp" => ENABLED (OpResolves(d) \/ OpRejects(d))
    /\ pc[d] = "awaitDelay" => ENABLED TimerFires(d)

(* C10: with two calls running on one instance, each call's delay counter
   and attempt counter follow its own progress alone: the delays it waits
   are initialDelay * multiplier^(i-1), it ends after the invocations it
   makes when run alone, and while it waits its delay the other call can
   take its next step. *)
C10_CallsIndependent ==
    \A c \in Calls :
        /\ \A i \in 1..Len(waited[c]) : RatEq(waited[c][i], ExpectedDelay(i))
        /\ \A d \in timer[c] : RatEq(d, ExpectedDelay(Len(waited[c]) + 1))
        /\ pc[c] # "idle" => RatEq(delay[c], ExpectedDelay(Len(waited[c]) + 1))
        /\ pc[c] = "awaitOp" => attempt[c] = opCalls[c]
        /\ opCalls[c] <= SoloInvocations(predArg[c], opScript[c], 1)
        /\ Terminal(c)
           => /\ opCalls[c] = SoloInvocations(predArg[c], opScript[c], 1)
              /\ Len(waited[c]) = opCalls[c] - 1
        /\ pc[c] = "awaitDelay" => \A d \in Calls \ {c} : CanProgress(d)

(* C10 witness: call 1 waits its first delay while call 2, started beside
   it, is already in its third attempt *)
C10_Witness ==
    /\ live = Calls
    /\ pc[1] = "awaitDelay"
    /\ Len(waited[1]) = 0
    /\ pc[2] = "awaitOp"
    /\ opCalls[2] = 3
    /\ Len(waited[2]) = 2

(***************************************************************************)
(*                          Part 2: the model client                       *)
(***************************************************************************)

(***************************************************************************)
(* What a call of withRetry settles with, and how often it invokes its     *)
(* operation, as a function of the predicate and the operation: the loop   *)
(* of withRetry run to its end with the decisions of the actions above.    *)
(***************************************************************************)
RECURSIVE withRetryFrom(_, _, _, _)
withRetryFrom(p, script, a, le) ==
    IF ~LoopGuard(a)
    THEN [calls |-> a - 1, out |-> Rejection(le)]
    ELSE IF ~Fails(script, a)
    THEN [calls |-> a, out |-> Value(a)]
    ELSE LET e == FailureOf(script, a)
             d == CatchDecision(p, a, e)
         IN  CASE d = "retry" -> withRetryFrom(p, script, a + 1, CaughtError(le, e))
               [] d = "pred" -> [calls |-> a, out |-> Rejection(TypeError)]
               [] OTHER -> [calls |-> a, out |-> Rejection(CaughtError(le, e))]

withRetry(p, script) == withRetryFrom(p, script, 1, UndefinedError)

(* the summary and the step-by-step actions agree on every finished call *)
RetrySummaryAgrees ==
    \A c \in live :
        Terminal(c) =>
            /\ settled[c] = withRetry(predArg[c], opScript[c]).out
            /\ opCalls[c] = withRetry(predArg[c], opScript[c]).calls

(* error instanceof Error: false only for the `undefined` thrown by an empty loop *)
InstanceOfError(e) == e.cls # "undefined"

(***************************************************************************)
(* URLs, as the scheme written by the user and the rest.  A text that is   *)
(* no absolute URL has the scheme "none".                                  *)
(***************************************************************************)
Url(scheme, rest) == [scheme |-> scheme, rest |-> rest]

DefaultBaseUrl == Url("http", "localhost:11434")

UrlValues ==
    {Url("http", "ollama:11434"), Url("HTTP", "ollama:11434"),
     Url("ftp", "ollama"), Url("none", "not a url")}

(* String.prototype.toLowerCase on the schemes in use *)
LowerScheme(x) == IF x = "HTTP" THEN "http" ELSE IF x = "HTTPS" THEN "https" ELSE x

(* new URL(u) does not throw *)
ParsesAsUrl(u) == u.scheme # "none"

(* u.startsWith('http://') || u.startsWith('https://') *)
StartsWithHttp(u) == u.scheme \in {"http", "https"}

(***************************************************************************)
(* What axios does with a URL before any I/O: an http(s) scheme, in any    *)
(* case, is requested; another scheme is rejected without a request; a     *)
(* text that is no absolute URL is resolved against http://localhost or    *)
(* rejected, depending on the axios 1.x release installed.                 *)
(***************************************************************************)
AxiosSends(u) ==
    IF u.scheme = "none" THEN {TRUE, FALSE}
    ELSE IF LowerScheme(u.scheme) \in {"http", "https"} THEN {TRUE}
    ELSE {FALSE}

(* mutant: an unparsable base URL is used as it is *)
BaseApiUrl_NoFallback(u) == u

(* try { new URL(baseApiUrl) ... } catch { baseApiUrl = 'http://localhost:11434' } *)
BaseApiUrl(u) == IF ParsesAsUrl(u) THEN u ELSE DefaultBaseUrl

ClientOptions ==
    [maxRetries : {-1, 0, MaxRetriesBound}, retryDelay : {1000},
     backoffMultiplier : {Rat(3, 2)}]

(***************************************************************************)
(* The configuration store.  A setting has a user (global) value and may   *)
(* have a workspace value, which get() prefers; update(key, value, true)   *)
(* writes the user value.                                                  *)
(***************************************************************************)
ModelNames == {"foo", "Foo", "foo:latest", "bar"}

ConfigGetModel(cfg) ==
    IF cfg.workspaceModel # "unset" THEN cfg.workspaceModel
    ELSE IF cfg.userModel # "unset" THEN cfg.userModel
    ELSE "llama2"

(* mutant: the update writes the whole section back with its defaults *)
ConfigUpdateModel_WholeSection(cfg, m) ==
    [cfg EXCEPT !.userModel = m, !.ollamaApiUrl = DefaultBaseUrl]

(* config.update('modelName', newModel, true) *)
ConfigUpdateModel(cfg, m) == [cfg EXCEPT !.userModel = m]

ClientConfigs ==
    [ollamaApiUrl : UrlValues, userModel : {"foo", "bar"},
     workspaceModel : {"unset", "foo"}, enableNotifications : BOOLEAN,
     retry : ClientOptions]

(* new RetryManager(): the options are read from the configuration *)
RetryManager(cfg) == cfg.retry

(* the model catalog the server answers GET /api/tags with: a set of names *)
Catalogs == SUBSET ModelNames

(* String.prototype.toLowerCase on the model names in use *)
LowerName(n) == IF n = "Foo" THEN "foo" ELSE n

(* mutant: the names are compared without regard to case *)
IsAvailable_IgnoreCase(availableModels, modelName) ==
    \E m \in availableModels : LowerName(m) = LowerName(modelName)

(* b.startsWith(a) on the model names in use *)
NameStartsWith(b, a) == b = a \/ (a = "foo" /\ b = "foo:latest")

(* mutant: a catalog entry that starts with the name counts *)
IsAvailable_Prefix(availableModels, modelName) ==
    \E m \in availableModels : NameStartsWith(m, modelName)

(* availableModels.some(m => m.name === modelName) *)
IsAvailable(availableModels, modelName) ==
    \E m \in availableModels : m = modelName

(***************************************************************************)
(* The server's behaviour towards one withRetry-wrapped request, as an     *)
(* operation script.  A request axios did not send fails every time        *)
(* with the error axios made up.                                           *)
(***************************************************************************)
ServerFailures == {HttpError(503), HttpError(404), NetError("ECONNREFUSED")}

Always == MaxRetriesBound + 2

ServerScripts ==
    {[first |-> PlainError, rest |-> PlainError, k |-> 0]}
    \cup {[first |-> e, rest |-> e, k |-> Always] : e \in ServerFailures}

NotSentScript ==
    [first |-> NetError("ERR_BAD_REQUEST"), rest |-> NetError("ERR_BAD_REQUEST"),
     k |-> Always]

ScriptsFor(sent) == IF sent THEN ServerScripts ELSE {NotSentScript}

(* the keys of payload.options of the chat request *)
SamplingKeys ==
    {"temperature", "top_p", "top_k", "repeat_penalty", "presence_penalty",
     "frequency_penalty", "mirostat", "mirostat_tau", "mirostat_eta", "num_ctx",
     "num_predict", "stop", "seed"}

(* the keys of the body of a request of getOllamaResponse *)
PayloadKeys(method) ==
    IF method = "POST" THEN {"model", "messages", "stream", "options"} ELSE {}

Request(method, url, model, level, check) ==
    [method |-> method, url |-> url, model |-> model, level |-> level,
     check |-> check, payload |-> PayloadKeys(method),
     options |-> IF "options" \in PayloadKeys(method) THEN SamplingKeys ELSE {}]

(* the POST of getCorrectionFromOllama: { model, prompt, stream } *)
GenerateRequest(url, model) ==
    [method |-> "POST", url |-> url, model |-> model, level |-> 0,
     check |-> "none", payload |-> {"model", "prompt", "stream"}, options |-> {}]

(* the requests of the second and later attempts of a withRetry call *)
LaterAttempts(req, sent, calls) ==
    [i \in 1..(IF sent /\ calls > 1 THEN calls - 1 ELSE 0) |-> req]

(* one invocation of an entry point of the client *)
InitClient ==
    /\ options \in ClientOptions
    /\ live = {}
    /\ opScript = [c \in Calls |-> [first |-> PlainError, rest |-> PlainError, k |-> 0]]
    /\ predArg = [c \in Calls |-> "default"]
    /\ IdleCalls
    /\ caller \in {"chat", "fix", "list"}
    /\ config \in ClientConfigs
    /\ config.retry = options
    /\ cmd = NoCommand
    /\ host = OneEditor
    /\ view = IF caller = "chat" THEN OpenView ELSE NoView
    /\ bar = NoBar
    /\ tx = NoText
    /\ caller = "chat" => config.enableNotifications
    /\ caller = "list" =>
          /\ config.enableNotifications
          /\ config.userModel = "foo"
          /\ config.workspaceModel = "unset"
          /\ options.maxRetries = 0
    /\ fpc = "idle"
    /\ depth = 0
    /\ loc = NoLocals
    /\ net = <<>>
    /\ ui = NothingShown
    /\ ret = NoReturn

(***************************************************************************)
(* What getOllamaResponse returns: the reply of the model, the error text  *)
(* built from the failure of the chat request, the text for a rejected     *)
(* protocol, or one of the two texts of the missing-model prompt.          *)
(***************************************************************************)
Reply == [kind |-> "reply", err |-> UndefinedError, val |-> <<>>]
RawBody == [kind |-> "rawBody", err |-> UndefinedError, val |-> <<>>]
ErrorText(e) == [kind |-> "errorText", err |-> e, val |-> <<>>]
InvalidProtocol == [kind |-> "invalidProtocol", err |-> PlainError, val |-> <<>>]
ModelInstallStarted == [kind |-> "modelInstallStarted", err |-> UndefinedError, val |-> <<>>]
ModelNotInstalled == [kind |-> "modelNotInstalled", err |-> UndefinedError, val |-> <<>>]
NullResult(e) == [kind |-> "null", err |-> e, val |-> <<>>]

(* the promise of the call rejects: an exception leaves the function *)
Thrown(e) == [kind |-> "thrown", err |-> e, val |-> <<>>]

(***************************************************************************)
(* The body of a 2xx response to a completion request: with its textual    *)
(* field (message.content for chat, response for generate) or without it.  *)
(***************************************************************************)
Bodies == {"text", "noText"}

(* what the server did with the request that just settled *)
Served(script, r) ==
    IF r.out.kind = "value" THEN r.out
    ELSE IF r.calls = 0 THEN NoOutcome
    ELSE Rejection(FailureOf(script, r.calls))

(* the locals of getOllamaResponse once the configuration is read *)
Invocation(cfg, carry) ==
    [NoLocals EXCEPT !.baseApiUrl = BaseApiUrl(cfg.ollamaApiUrl),
                     !.modelName = ConfigGetModel(cfg),
                     !.picked = carry]

(* mutant: the catalog is not queried, the chat request is sent at once *)
StartCatalogCheck_Skipped(cfg, d, carry) ==
    LET l == Invocation(cfg, carry) IN
    /\ loc' = [l EXCEPT !.sent = TRUE]
    /\ net' = Append(net, Request("POST", l.baseApiUrl, l.modelName, d, "none"))
    /\ fpc' = "awaitPost"
    /\ depth' = d

(***************************************************************************)
(* getOllamaResponse from its first line to the await of the catalog       *)
(* check: the configuration is read and withRetry starts GET /api/tags.    *)
(***************************************************************************)
StartCatalogCheck(cfg, d, carry) ==
    LET l == Invocation(cfg, carry) IN
    \E sent \in (IF LoopGuard(1) THEN AxiosSends(l.baseApiUrl) ELSE {FALSE}) :
        /\ loc' = [l EXCEPT !.sent = sent]
        /\ net' = IF sent
                  THEN Append(net, Request("GET", l.baseApiUrl, "", d, "none"))
                  ELSE net
        /\ fpc' = "awaitCatalog"
        /\ depth' = d

(* the chat handler calls getOllamaResponse *)
ChatInvoke ==
    /\ caller = "chat"
    /\ fpc = "idle"
    /\ view.panel = "open"
    /\ StartCatalogCheck(config, 0, "")
    /\ UNCHANGED <<caller, config, ui, ret>>
    /\ UNCHANGED retryVars
    /\ UNCHANGED editorVars
    /\ view' = MessageReceived(view)
    /\ UNCHANGED <<bar, tx>>

(* mutant: the protocol is compared without regard to case *)
ProtocolAccepted_IgnoreCase(u) == LowerScheme(u.scheme) \in {"http", "https"}

(* the check of fullApiUrl before the chat request *)
ProtocolAccepted(u) == StartsWithHttp(u)

(***************************************************************************)
(* getOllamaResponse from the payload to the await of the chat request,    *)
(* with locals l and the requests n dispatched so far.                     *)
(***************************************************************************)
StartChatRequest(l, n) ==
    IF ~ProtocolAccepted(l.baseApiUrl)
    THEN /\ ret' = InvalidProtocol
         /\ fpc' = "returned"
         /\ net' = n
         /\ loc' = l
    ELSE \E sent \in (IF LoopGuard(1) THEN AxiosSends(l.baseApiUrl) ELSE {FALSE}) :
            /\ loc' = [l EXCEPT !.sent = sent,
                                !.postCalls = IF LoopGuard(1) THEN 1 ELSE 0]
            /\ net' = IF sent
                      THEN Append(n, Request("POST", l.baseApiUrl, l.modelName,
                                             depth, l.check))
                      ELSE n
            /\ fpc' = "awaitPost"
            /\ ret' = ret

(* mutant: the catch block only logs *)
CheckFailed_Silent(l, n, e) == ui' = ui /\ StartChatRequest(l, n)

(* mutant: a failed catalog check ends the call with the error text *)
CheckFailed_Halts(l, n, e) ==
    /\ ui' = [ui EXCEPT !.warnings = IF InstanceOfError(e) THEN @ + 1 ELSE @]
    /\ ret' = ErrorText(e)
    /\ fpc' = "returned"
    /\ net' = n
    /\ loc' = l

(***************************************************************************)
(* The catch block around the catalog check: the error is logged, a        *)
(* warning is shown if it is an Error, and the flow goes on to the chat    *)
(* request.                                                                *)
(***************************************************************************)
CheckFailed(l, n, e) ==
    /\ ui' = [ui EXCEPT !.warnings = IF InstanceOfError(e) THEN @ + 1 ELSE @]
    /\ StartChatRequest(l, n)

(* the awaited catalog check settles *)
CatalogSettles ==
    /\ fpc = "awaitCatalog"
    /\ \E script \in ScriptsFor(loc.sent), catalog \in Catalogs :
        LET r == withRetry("default", script)
            n == net \o LaterAttempts(Request("GET", loc.baseApiUrl, "", depth, "none"),
                                      loc.sent, r.calls)
        IN  IF r.out.kind = "value"
            THEN IF IsAvailable(catalog, loc.modelName)
                 THEN /\ StartChatRequest([loc EXCEPT !.availableModels = catalog,
                                                      !.check = "available"], n)
                      /\ ui' = ui
                 ELSE /\ loc' = [loc EXCEPT !.availableModels = catalog,
                                            !.check = "missing"]
                      /\ ui' = [ui EXCEPT !.prompts = @ + 1]
                      /\ fpc' = "awaitChoice"
                      /\ net' = n
                      /\ ret' = ret
            ELSE CheckFailed([loc EXCEPT !.check = "failed"], n, r.out.err)
    /\ UNCHANGED <<caller, config, depth>>
    /\ UNCHANGED retryVars
    /\ UNCHANGED editorVars
    /\ view' = HandlerAfter(view, caller, fpc')
    /\ UNCHANGED <<bar, tx>>

(* mutant: after starting the installation the chat request is sent *)
InstallChosen_ThenChat(l) ==
    /\ ui' = [ui EXCEPT !.installs = @ + 1, !.pull = "running"]
    /\ StartChatRequest(l, net)

(***************************************************************************)
(* choice === installModel: installOllamaModel opens a terminal and sends  *)
(* `ollama pull` to it; the text modelInstallStarted is returned.          *)
(***************************************************************************)
InstallChosen(l) ==
    /\ ui' = [ui EXCEPT !.installs = @ + 1, !.pull = "running"]
    /\ ret' = ModelInstallStarted
    /\ fpc' = "returned"
    /\ net' = net
    /\ loc' = l

(* mutant: the return is missing and the flow goes on to the chat request *)
NotInstalled_FallsThrough(l) == StartChatRequest(l, net)

(* return modelNotInstalled, after the prompt was dismissed or nothing was picked *)
NotInstalled(l) ==
    /\ ret' = ModelNotInstalled
    /\ fpc' = "returned"
    /\ net' = net
    /\ loc' = l

(* the user answers the missing-model prompt *)
ChoiceMade ==
    /\ fpc = "awaitChoice"
    /\ \E choice \in {"install", "change", "dismiss"} :
        LET l == [loc EXCEPT !.choice = choice] IN
        CASE choice = "install" -> InstallChosen(l)
          [] choice = "change" ->
                /\ ui' = [ui EXCEPT !.picks = @ + 1]
                /\ fpc' = "awaitPick"
                /\ loc' = l
                /\ UNCHANGED <<net, ret>>
          [] OTHER ->
                /\ NotInstalled(l)
                /\ ui' = ui
    /\ UNCHANGED <<caller, config, depth>>
    /\ UNCHANGED retryVars
    /\ UNCHANGED editorVars
    /\ view' = HandlerAfter(view, caller, fpc')
    /\ UNCHANGED <<bar, tx>>

(* showQuickPick returned undefined *)
NoPick == ""

Picked(l, p) == [l EXCEPT !.newModel = p]

(* the user picks one of the catalog's names, or closes the picker *)
PickMade ==
    /\ fpc = "awaitPick"
    /\ \E p \in loc.availableModels \cup {NoPick} :
        IF p = NoPick
        THEN NotInstalled(loc)
        ELSE /\ loc' = Picked(loc, p)
             /\ fpc' = "awaitUpdate"
             /\ UNCHANGED <<net, ret>>
    /\ UNCHANGED <<caller, config, depth, ui>>
    /\ UNCHANGED retryVars
    /\ UNCHANGED editorVars
    /\ view' = HandlerAfter(view, caller, fpc')
    /\ UNCHANGED <<bar, tx>>

(* mutant: the re-invocation happens whether or not the write succeeded *)
Reinvoke_Always(ok) == TRUE

(* return this.getOllamaResponse(message) is reached only past the awaited update *)
Reinvoke(ok) == ok

(***************************************************************************)
(* The awaited config.update settles.  Resolved: getOllamaResponse calls   *)
(* itself and the new invocation runs to its catalog check.  Rejected:     *)
(* the catch block of the catalog check takes the error and the flow goes  *)
(* on to the chat request.                                                 *)
(***************************************************************************)
UpdateSettles ==
    /\ fpc = "awaitUpdate"
    /\ \E ok \in BOOLEAN :
        /\ config' = IF ok THEN ConfigUpdateModel(config, loc.newModel) ELSE config
        /\ IF Reinvoke(ok)
           THEN /\ depth < MaxDepth
                /\ ui' = [ui EXCEPT !.writes = IF ok THEN @ + 1 ELSE @]
                /\ StartCatalogCheck(config', depth + 1, loc.newModel)
                /\ ret' = ret
           ELSE /\ CheckFailed(loc, net, PlainError)
                /\ depth' = depth
    /\ UNCHANGED caller
    /\ UNCHANGED retryVars
    /\ UNCHANGED editorVars
    /\ view' = HandlerAfter(view, caller, fpc')
    /\ UNCHANGED <<bar, tx>>

(* mutant: the catch block throws the error on *)
ChatResult_Rethrows(out, body) ==
    IF out.kind = "value"
    THEN IF body = "text" THEN Reply ELSE RawBody
    ELSE Thrown(out.err)

(***************************************************************************)
(* response.data.message.content.trim() if the body has it, otherwise      *)
(* JSON.stringify(response.data); the error text of the catch block if     *)
(* withRetry rejected.                                                     *)
(***************************************************************************)
ChatResult(out, body) ==
    IF out.kind = "value"
    THEN IF body = "text" THEN Reply ELSE RawBody
    ELSE ErrorText(out.err)

(* the awaited chat request settles *)
PostSettles ==
    /\ fpc = "awaitPost"
    /\ \E script \in ScriptsFor(loc.sent), body \in Bodies :
        LET r == withRetry("default", script) IN
        /\ ret' = ChatResult(r.out, body)
        /\ net' = net \o LaterAttempts(Request("POST", loc.baseApiUrl, loc.modelName,
                                               depth, loc.check),
                                       loc.sent, r.calls)
        /\ loc' = [loc EXCEPT !.postCalls = r.calls, !.served = Served(script, r),
                              !.body = IF r.out.kind = "value" THEN body ELSE "none"]
    /\ fpc' = "returned"
    /\ UNCHANGED <<caller, config, depth, ui>>
    /\ UNCHANGED retryVars
    /\ UNCHANGED editorVars
    /\ view' = HandlerAfter(view, caller, fpc')
    /\ UNCHANGED <<bar, tx>>

(* `ollama pull` in the terminal comes to its end, whenever it does *)
InstallFinishes ==
    /\ ui.pull = "running"
    /\ ui' = [ui EXCEPT !.pull = "done"]
    /\ UNCHANGED <<caller, config, fpc, depth, loc, net, ret>>
    /\ UNCHANGED retryVars
    /\ UNCHANGED editorVars
    /\ UNCHANGED sideVars

(***************************************************************************)
(* The fix command: getCorrectionFromOllama reads the configuration and    *)
(* posts the prompt to the configured URL through a new RetryManager.      *)
(***************************************************************************)
(* The handler of the fix command, up to withProgress: the active editor   *)
(* and its selection are captured; without an editor, or with an empty     *)
(* selection, the handler tells the user and returns.                      *)
(***************************************************************************)
FixCommand ==
    /\ caller = "fix"
    /\ cmd.pc = "idle"
    /\ cmd' = IF host.active = "none"
              THEN [cmd EXCEPT !.pc = "done", !.notes = @ \cup {"noEditor"}]
              ELSE IF host.selection[host.active] = "empty"
              THEN [cmd EXCEPT !.pc = "done", !.notes = @ \cup {"noSelection"}]
              ELSE [cmd EXCEPT !.pc = "progress",
                               !.editor = host.active,
                               !.document = host.document[host.active],
                               !.selection = host.selection[host.active]]
    /\ UNCHANGED <<caller, config, fpc, depth, loc, net, ui, ret, host>>
    /\ UNCHANGED retryVars
    /\ UNCHANGED sideVars

(* token.isCancellationRequested, read before the call of the client *)
CheckBeforeCall_Missing(c) == FALSE

CheckBeforeCall(c) == c

(***************************************************************************)
(* The task of withProgress up to its await: the token is read, and unless *)
(* cancellation was requested getCorrectionFromOllama is called, which     *)
(* reads the configuration, constructs its RetryManager and starts the     *)
(* first attempt of the POST.  The host decides when the task starts, so   *)
(* the user may have cancelled before.                                     *)
(***************************************************************************)
FixInvoke ==
    /\ caller = "fix"
    /\ fpc = "idle"
    /\ cmd.pc = "progress"
    /\ IF CheckBeforeCall(cmd.cancelled)
       THEN /\ cmd' = [cmd EXCEPT !.pc = "done"]
            /\ UNCHANGED <<options, fpc, loc, net>>
       ELSE /\ options' = RetryManager(config)
            /\ LET l == [NoLocals EXCEPT !.baseApiUrl = config.ollamaApiUrl,
                                         !.modelName = ConfigGetModel(config)]
               IN  \E sent \in (IF LoopGuard(1)' THEN AxiosSends(l.baseApiUrl)
                                ELSE {FALSE}) :
                    /\ loc' = [l EXCEPT !.sent = sent,
                                        !.postCalls = IF LoopGuard(1)' THEN 1 ELSE 0]
                    /\ net' = IF sent
                              THEN Append(net, GenerateRequest(l.baseApiUrl, l.modelName))
                              ELSE net
            /\ fpc' = "awaitFix"
            /\ cmd' = [cmd EXCEPT !.pc = "awaitCorrection"]
    /\ UNCHANGED <<caller, config, depth, ui, ret, host>>
    /\ UNCHANGED callVars
    /\ UNCHANGED sideVars

(***************************************************************************)
(* The error the catch block of getCorrectionFromOllama receives: the      *)
(* rejection of withRetry, or the TypeError of response.data.response      *)
(* .trim() when the body has no `response` field.                          *)
(***************************************************************************)
(* The error the catch block of getCorrectionFromOllama receives: the      *)
(* rejection of withRetry, or the TypeError of response.data.response      *)
(* .trim() when the body has no `response` field.                          *)
(***************************************************************************)
FixCaught(out, body) == IF out.kind = "value" THEN TypeError ELSE out.err

FixFails(out, body) == out.kind # "value" \/ body # "text"

(* the corrected code, or null from the catch block *)
FixResult(out, body) ==
    IF FixFails(out, body) THEN NullResult(FixCaught(out, body)) ELSE Reply

(* the text of errorMessage: its form, and the status code it names *)
FixErrorMessage(e) ==
    IF e.cls = "AxiosError"
    THEN IF e.code = "ECONNREFUSED" THEN [form |-> "connect", status |-> 0]
         ELSE IF e.code = "ETIMEDOUT" THEN [form |-> "timeout", status |-> 0]
         ELSE IF e.response THEN [form |-> "status", status |-> e.status]
         ELSE IF e.code # "ERR_BAD_REQUEST" THEN [form |-> "noResponse", status |-> 0]
         ELSE [form |-> "configuring", status |-> 0]
    ELSE IF InstanceOfError(e) THEN [form |-> "unexpected", status |-> 0]
    ELSE [form |-> "unknown", status |-> 0]

(* mutant: the error message is shown whatever the toggle says *)
ShowsError_Always(cfg) == TRUE

(* if (enableNotifications) showErrorMessage(errorMessage) *)
ShowsError(cfg) == cfg.enableNotifications

(* token.isCancellationRequested, read after the call of the client *)
CheckAfterCall_Missing(c) == FALSE

CheckAfterCall(c) == c

(***************************************************************************)
(* The comparison before the edit: there is an active editor, it shows the *)
(* document the command started on, and its selection equals the one the   *)
(* command started with.                                                   *)
(***************************************************************************)
SameTarget_Unchecked(h, c) == h.active # "none"

SameTarget_DocumentOnly(h, c) ==
    /\ h.active # "none"
    /\ h.document[h.active] = c.document

SameTarget(h, c) ==
    /\ h.active # "none"
    /\ h.document[h.active] = c.document
    /\ h.selection[h.active] = c.selection

(***************************************************************************)
(* What the task does with the value of getCorrectionFromOllama: nothing   *)
(* after a cancellation or for null, a message when the corrected code is  *)
(* the selected text, the edit when the target is the same, and a warning  *)
(* otherwise.                                                              *)
(***************************************************************************)
AfterCorrection(c, h, r, same) ==
    IF CheckAfterCall(c.cancelled) THEN [c EXCEPT !.pc = "done"]
    ELSE IF r.kind = "null" THEN [c EXCEPT !.pc = "done"]
    ELSE IF same THEN [c EXCEPT !.pc = "done", !.notes = @ \cup {"noChanges"}]
    ELSE IF SameTarget(h, c) THEN [c EXCEPT !.pc = "editing", !.target = h.active]
    ELSE [c EXCEPT !.pc = "done", !.notes = @ \cup {"targetChanged"}]

(***************************************************************************)
(* withRetry settles for getCorrectionFromOllama, which returns the text   *)
(* or null; the task of the fix command continues with the value in the    *)
(* same turn.                                                              *)
(***************************************************************************)
FixSettles ==
    /\ fpc = "awaitFix"
    /\ \E script \in ScriptsFor(loc.sent), body \in Bodies, same \in BOOLEAN :
        LET r == withRetry("default", script) IN
        /\ ret' = FixResult(r.out, body)
        /\ net' = net \o LaterAttempts(GenerateRequest(loc.baseApiUrl, loc.modelName),
                                       loc.sent, r.calls)
        /\ loc' = [loc EXCEPT !.postCalls = r.calls, !.served = Served(script, r),
                              !.body = IF r.out.kind = "value" THEN body ELSE "none"]
        /\ ui' = IF FixFails(r.out, body) /\ ShowsError(config)
                 THEN [ui EXCEPT !.errors = @ + 1,
                                 !.message = FixErrorMessage(FixCaught(r.out, body))]
                 ELSE ui
        /\ cmd' = AfterCorrection(cmd, host, FixResult(r.out, body), same)
    /\ fpc' = "returned"
    /\ UNCHANGED <<caller, config, depth, host>>
    /\ UNCHANGED retryVars
    /\ UNCHANGED sideVars

EditOutcomes == {"applied", "refused", "rejected"}

(***************************************************************************)
(* currentEditor.edit settles: the selection is replaced and the user is   *)
(* told, or the edit is refused or rejected and an error is shown.         *)
(***************************************************************************)
EditSettles ==
    /\ cmd.pc = "editing"
    /\ \E o \in EditOutcomes :
        /\ host' = IF o = "applied"
                   THEN [host EXCEPT !.text[cmd.document] = "corrected"]
                   ELSE host
        /\ cmd' = [cmd EXCEPT !.pc = "done",
                              !.notes = @ \cup {CASE o = "applied" -> "updated"
                                                  [] o = "refused" -> "editFailed"
                                                  [] OTHER -> "editError"}]
    /\ UNCHANGED <<caller, config, fpc, depth, loc, net, ui, ret>>
    /\ UNCHANGED retryVars
    /\ UNCHANGED sideVars

Running == cmd.pc \in {"progress", "awaitCorrection"}

(***************************************************************************)
(* The user presses Cancel on the progress notification while the task is  *)
(* running: the token is cancelled and its listener tells the user.        *)
(* cancelOps notes how many attempts a running withRetry had started.      *)
(***************************************************************************)
UserCancels ==
    /\ Running
    /\ ~cmd.cancelled
    /\ \A c \in live : pc[c] \notin {"resolved", "rejected"}
    /\ cmd' = [cmd EXCEPT !.cancelled = TRUE, !.cancelAt = cmd.pc,
                          !.cancelOps = opCalls[1],
                          !.notes = @ \cup {"cancelled"}]
    /\ UNCHANGED <<caller, config, fpc, depth, loc, net, ui, ret, host>>
    /\ UNCHANGED retryVars
    /\ UNCHANGED sideVars

(* the user activates another editor, or closes the last one *)
UserSwitchesEditor ==
    /\ Running
    /\ \E e \in (Editors \cup {"none"}) \ {host.active} :
        host' = [host EXCEPT !.active = e]
    /\ UNCHANGED <<caller, config, fpc, depth, loc, net, ui, ret, cmd>>
    /\ UNCHANGED retryVars
    /\ UNCHANGED sideVars

(* the user changes the selection of the active editor *)
UserSelects ==
    /\ Running
    /\ host.active # "none"
    /\ \E x \in Selections \ {host.selection[host.active]} :
        host' = [host EXCEPT !.selection[host.active] = x]
    /\ UNCHANGED <<caller, config, fpc, depth, loc, net, ui, ret, cmd>>
    /\ UNCHANGED retryVars
    /\ UNCHANGED sideVars

(***************************************************************************)
(* The catalog as the server sends it: a sequence of entries, each with a  *)
(* name; the `models` field may be missing from the body.                  *)
(***************************************************************************)
Entry(n) == [name |-> n, size |-> 1]

EntrySeqs ==
    {<<>>} \cup {<<Entry(a)>> : a \in {"foo", "bar"}}
           \cup {<<Entry(a), Entry(b)>> : a, b \in {"foo", "bar"}}

ListBodies == [hasModels : BOOLEAN, models : EntrySeqs]

(* response.data?.models?.map(m => m.name) || [] *)
NamesOf(body) ==
    IF body.hasModels THEN [i \in 1..Len(body.models) |-> body.models[i].name]
    ELSE <<>>

Names(seq) == [kind |-> "names", err |-> UndefinedError, val |-> seq]

(* mutant: the error of the catalog request is thrown on *)
ListResult_Rethrows(ok, body, e) == IF ok THEN Names(NamesOf(body)) ELSE Thrown(e)

(* getAvailableModels: the names, or [] from the catch block *)
ListResult(ok, body, e) == IF ok THEN Names(NamesOf(body)) ELSE Names(<<>>)

(* getAvailableModels(baseUrl) is called: axios.get(baseUrl + '/api/tags') *)
ListInvoke ==
    /\ caller = "list"
    /\ fpc = "idle"
    /\ \E sent \in AxiosSends(config.ollamaApiUrl) :
        /\ loc' = [NoLocals EXCEPT !.baseApiUrl = config.ollamaApiUrl, !.sent = sent]
        /\ net' = IF sent
                  THEN Append(net, Request("GET", config.ollamaApiUrl, "", 0, "none"))
                  ELSE net
    /\ fpc' = "awaitList"
    /\ UNCHANGED <<caller, config, depth, ui, ret>>
    /\ UNCHANGED retryVars
    /\ UNCHANGED sideVars
    /\ UNCHANGED editorVars

(* the awaited catalog request of getAvailableModels settles *)
ListSettles ==
    /\ fpc = "awaitList"
    /\ \E ok \in (IF loc.sent THEN BOOLEAN ELSE {FALSE}), body \in ListBodies,
          e \in (IF loc.sent THEN ServerFailures ELSE {NetError("ERR_BAD_REQUEST")}) :
        /\ ret' = ListResult(ok, body, e)
        /\ loc' = [loc EXCEPT !.served = IF ok THEN Value(1) ELSE Rejection(e),
                              !.entries = IF ok /\ body.hasModels THEN body.models
                                          ELSE <<>>]
    /\ fpc' = "returned"
    /\ UNCHANGED <<caller, config, depth, net, ui>>
    /\ UNCHANGED retryVars
    /\ UNCHANGED sideVars
    /\ UNCHANGED editorVars

NextClient ==
    \/ ChatInvoke
    \/ CatalogSettles
    \/ ChoiceMade
    \/ PickMade
    \/ UpdateSettles
    \/ PostSettles
    \/ InstallFinishes
    \/ FixCommand
    \/ FixInvoke
    \/ FixSettles
    \/ EditSettles
    \/ ListInvoke
    \/ ListSettles

SpecClient == InitClient /\ [][NextClient]_vars

ClientTypeOK ==
    /\ caller \in {"chat", "fix", "list"}
    /\ config.ollamaApiUrl \in UrlValues
    /\ config.userModel \in ModelNames
    /\ fpc \in {"idle", "awaitCatalog", "awaitChoice", "awaitPick", "awaitUpdate",
                "awaitPost", "awaitFix", "awaitList", "returned"}
    /\ depth \in 0..MaxDepth
    /\ loc.check \in {"none", "available", "missing", "failed"}
    /\ ret.kind \in {"none", "reply", "rawBody", "errorText", "invalidProtocol",
                     "modelInstallStarted", "modelNotInstalled", "null", "names"}
    /\ (fpc = "returned") = (ret.kind # "none")

(***************************************************************************)
(* Vocabulary of the claims about the model client.                        *)
(***************************************************************************)
Requests == 1..Len(net)
IsPost(i) == net[i].method = "POST"
IsGet(i) == net[i].method = "GET"
HasReturned == fpc = "returned"

(* request i was dispatched after a catalog query of the same invocation *)
PrecededByCatalogQuery(i) ==
    \E j \in 1..(i - 1) : IsGet(j) /\ net[j].level = net[i].level

(* C11: every generation or chat request, from the chat handler or from
   the fix command, is preceded in the same invocation by a query of the
   model catalog. *)
C11_CheckBeforeEveryRequest ==
    \A i \in Requests : IsPost(i) => PrecededByCatalogQuery(i)

(* C11 amended: every chat request of the chat handler is preceded in the
   same invocation by a query of the model catalog; the fix command sends
   its generation request without ever querying the catalog. *)
C11_CheckBeforeChatRequest ==
    /\ caller = "chat" => \A i \in Requests : IsPost(i) => PrecededByCatalogQuery(i)
    /\ caller = "fix" => \A i \in Requests : IsPost(i)

(* C11 witness: a re-invocation of the chat handler has sent its chat request *)
C11_Witness ==
    /\ caller = "chat"
    /\ depth = 1
    /\ \E i \in Requests : IsPost(i) /\ net[i].level = 1

(* C12: when the catalog was fetched and does not hold the configured
   model, no request naming that model is dispatched in that invocation,
   whatever the user answers to the prompt. *)
C12_NoRequestForMissingModel ==
    \A i \in Requests : IsPost(i) => net[i].check # "missing"

(* the current invocation has sent a chat request for its configured model *)
ChatRequestSent ==
    \E i \in Requests :
        IsPost(i) /\ net[i].level = depth /\ net[i].model = loc.modelName

(* C13: when the catalog check fails, the flow is not halted: the chat
   request is still dispatched with the configured model, and its outcome
   is what the caller receives. *)
C13_FailedCheckStillRequests ==
    (caller = "chat" /\ HasReturned /\ loc.check = "failed" /\ MaxRetries >= 0)
    => /\ ChatRequestSent
       /\ ret.kind \in {"reply", "rawBody", "errorText"}

(* C13 amended: when the catalog check fails and the base URL starts with
   http:// or https:// as written, the chat request is still dispatched
   with the configured model and its outcome is what the caller receives;
   with any other base URL the call returns the invalid-protocol text and
   no chat request is dispatched. *)
C13_FailedCheckThenProtocolCheck ==
    (caller = "chat" /\ HasReturned /\ loc.check = "failed" /\ MaxRetries >= 0)
    => IF StartsWithHttp(loc.baseApiUrl)
       THEN /\ ChatRequestSent
            /\ ret.kind \in {"reply", "rawBody", "errorText"}
            /\ ret.kind = "errorText" => ret.err = TypeError
       ELSE /\ ~ChatRequestSent
            /\ ret = InvalidProtocol

(* C13 witness: the catalog request was sent and failed, the chat request
   was sent and answered *)
C13_Witness ==
    /\ caller = "chat"
    /\ loc.check = "failed"
    /\ MaxRetries >= 0
    /\ Len(net) = 2 /\ IsGet(1) /\ IsPost(2)
    /\ ret = Reply

(* C14: after 'change model' and a pick, the picked name is persisted as
   the configured model and the call is re-invoked from the top: the
   re-invocation reads the newly persisted name, finds it in the catalog
   when the catalog holds it, and sends its chat request with the new
   model. *)
C14_SwitchUsesNewModel ==
    (caller = "chat" /\ depth >= 1)
    => /\ loc.modelName = loc.picked
       /\ (loc.check \in {"available", "missing"} /\ loc.picked \in loc.availableModels)
              => loc.check = "available"
       /\ \A i \in Requests :
              (IsPost(i) /\ net[i].level = depth) => net[i].model = loc.picked

(* C15: the re-invocation after a model switch recurses at most one level
   and the prompt is shown at most once, even when the newly selected
   model is absent at the second check or the name read back is still the
   old one. *)
C15_AtMostOneReinvocation ==
    caller = "chat" => (depth <= 1 /\ ui.prompts <= 1)

(* C15 amended: getOllamaResponse re-invokes itself once for every pick it
   persisted, with no bound on the number of levels; each invocation shows
   the prompt at most once, so the prompt is shown at most once more than
   there were re-invocations, and the picker at most as often as the
   prompt. *)
C15_OneReinvocationPerPersistedPick ==
    caller = "chat"
    => /\ depth = ui.writes
       /\ ui.prompts <= depth + 1
       /\ ui.picks <= ui.prompts
       /\ fpc \in {"awaitChoice", "awaitPick", "awaitUpdate"} => ui.prompts = depth + 1

(* C15 witness: the second re-invocation finds its model missing and
   shows the prompt a third time *)
C15_Witness ==
    /\ caller = "chat"
    /\ depth = 2
    /\ ui.prompts = 3
    /\ fpc = "awaitChoice"

(* the user dismissed the prompt, or chose 'change model' and closed the
   picker without a pick *)
Declined ==
    \/ loc.choice = "dismiss"
    \/ loc.choice = "change" /\ fpc # "awaitPick" /\ loc.newModel = NoPick

(* C16: when the user dismisses the prompt, or chooses 'change model' and
   picks nothing, the call ends with the 'model not installed' text: no
   chat request is dispatched and no installation is started. *)
C16_DeclinedEndsCall ==
    (caller = "chat" /\ Declined)
    => /\ HasReturned
       /\ ret = ModelNotInstalled
       /\ \A i \in Requests : ~IsPost(i)
       /\ ui.installs = 0
       /\ ui.pull = "none"

(* C16 witness: the picker was closed without a pick *)
C16_Witness ==
    /\ caller = "chat"
    /\ loc.choice = "change"
    /\ loc.newModel = NoPick
    /\ loc.availableModels # {}
    /\ ret = ModelNotInstalled

(* C17: when the user chooses 'install', the call starts the external
   installation and returns the 'installation started' text without
   waiting for the installation to finish; the chat request is not sent,
   neither at once nor once the installation has finished. *)
C17_InstallReturnsWithoutRequest ==
    (caller = "chat" /\ loc.choice = "install")
    => /\ HasReturned
       /\ ret = ModelInstallStarted
       /\ ui.installs = 1
       /\ ui.pull \in {"running", "done"}
       /\ \A i \in Requests : ~IsPost(i)

(* C17 witness: the call has returned while the installation is running *)
C17_Witness ==
    /\ caller = "chat"
    /\ loc.choice = "install"
    /\ ret = ModelInstallStarted
    /\ ui.pull = "running"

(* C18: the only configuration write of the client is the model name
   written by the switch-model step; every other step of the chat handler
   and of the fix command (model available, prompt dismissed, install,
   failed catalog check, failed or answered request) leaves the
   configuration as it was. *)
C18_OnlySwitchWritesConfig ==
    [][config' # config
       => /\ caller = "chat"
          /\ fpc = "awaitUpdate"
          /\ loc.choice = "change"
          /\ loc.newModel \in loc.availableModels
          /\ config' = [config EXCEPT !.userModel = loc.newModel]]_vars

(* C18 witness: the switch-model step has written the picked name *)
C18_Witness ==
    /\ caller = "chat"
    /\ ui.writes = 1
    /\ loc.picked = "bar"
    /\ config.userModel = "bar"
    /\ config.workspaceModel = "unset"
    /\ HasReturned

(* C19: the configured model counts as available exactly when some catalog
   entry's name equals the configured name, character for character: a
   catalog holding only names that differ in case or that extend the name
   ('foo:latest' for 'foo') makes the model missing. *)
C19_ExactNameMatch ==
    (caller = "chat" /\ loc.check \in {"available", "missing"})
    => /\ loc.check = "available" <=> loc.modelName \in loc.availableModels
       /\ (loc.modelName = "foo" /\ loc.availableModels \subseteq {"Foo", "foo:latest", "bar"})
              => /\ loc.check = "missing"
                 /\ ui.prompts >= 1

(* C19 witness: the catalog holds the name in another case and with a tag,
   and the model was found missing *)
C19_Witness ==
    /\ caller = "chat"
    /\ loc.modelName = "foo"
    /\ loc.availableModels = {"Foo", "foo:latest"}
    /\ loc.check = "missing"
    /\ fpc = "awaitChoice"

(* C20: when the configured base URL is no valid URL ('not a url'), the
   call returns a configuration failure and makes no network call,
   neither the catalog request nor the chat request. *)
C20_InvalidUrlNoNetwork ==
    (caller = "chat" /\ ~ParsesAsUrl(config.ollamaApiUrl))
    => /\ net = <<>>
       /\ HasReturned => ret = InvalidProtocol

(* C20 amended: when the configured base URL is no valid URL, the chat
   handler replaces it by http://localhost:11434 and carries on: the
   catalog request and the chat request go to that host, and the call does
   not return a configuration failure. *)
C20_InvalidUrlFallsBack ==
    (caller = "chat" /\ ~ParsesAsUrl(config.ollamaApiUrl) /\ fpc # "idle")
    => /\ loc.baseApiUrl = DefaultBaseUrl
       /\ \A i \in Requests : net[i].url = DefaultBaseUrl
       /\ MaxRetries >= 0 => (Len(net) >= 1 /\ IsGet(1))
       /\ ret # InvalidProtocol
       /\ (MaxRetries >= 0 /\ HasReturned /\ loc.check \in {"available", "failed"})
              => ChatRequestSent

(* C20 witness: with the base URL 'not a url' the catalog was fetched from
   the default host and the chat request was answered by it *)
C20_Witness ==
    /\ caller = "chat"
    /\ config.ollamaApiUrl = Url("none", "not a url")
    /\ Len(net) = 2 /\ IsGet(1) /\ IsPost(2)
    /\ net[2].url = DefaultBaseUrl
    /\ loc.check = "available"
    /\ ret = Reply

(* C21: when the completion URL does not start with http:// or https://,
   the failure is fatal and not retried: the chat request is never
   dispatched, the retry engine makes no attempt for it, and the call
   returns a failure. *)
C21_BadProtocolIsFatal ==
    (caller = "chat" /\ fpc # "idle" /\ ~StartsWithHttp(loc.baseApiUrl))
    => /\ \A i \in Requests : ~IsPost(i)
       /\ loc.postCalls = 0
       /\ fpc # "awaitPost"
       /\ HasReturned
            => ret \in {InvalidProtocol, ModelInstallStarted, ModelNotInstalled}
       /\ (HasReturned /\ loc.choice = "none") => ret = InvalidProtocol

(* C21 witness: the catalog held the model, the base URL is written with
   an upper-case scheme, and the call returned the invalid-protocol text *)
C21_Witness ==
    /\ caller = "chat"
    /\ loc.baseApiUrl = Url("HTTP", "ollama:11434")
    /\ loc.check = "available"
    /\ ret = InvalidProtocol
    /\ Len(net) = 1

(* the kinds of value the two entry points return *)
ReturnedKinds ==
    {"reply", "rawBody", "errorText", "invalidProtocol", "modelInstallStarted",
     "modelNotInstalled", "null", "names"}

(* the completion request of the current invocation failed *)
RequestFailed == loc.postCalls >= 1 /\ loc.served.kind = "error"

(* C22: the model client never throws to its caller: the promise of
   getOllamaResponse and of getCorrectionFromOllama never rejects, and a
   failure that ends the call (of the protocol check or of the completion
   request, also after a failed catalog check or a failed configuration
   write) is returned as a failure value. *)
C22_NeverThrows ==
    /\ ret.kind # "thrown"
    /\ HasReturned => ret.kind \in ReturnedKinds
    /\ (HasReturned /\ RequestFailed)
         => ret.kind = (IF caller = "chat" THEN "errorText" ELSE "null")

(* C22 witness: the configuration write failed, then the chat request
   failed, and the call returned the error text *)
C22_Witness ==
    /\ caller = "chat"
    /\ loc.choice = "change"
    /\ loc.check = "missing"
    /\ ui.warnings >= 1
    /\ RequestFailed
    /\ ret.kind = "errorText"

(* the completion request was answered 2xx with a body that lacks the
   textual completion field *)
AnsweredWithoutText == HasReturned /\ loc.served.kind = "value" /\ loc.body = "noText"

(* C23: when a completion request succeeds and the body has no textual
   completion field, the call does not fail: it returns the raw serialized
   body as the success text, in the generate (fix) and in the chat variant. *)
C23_MissingFieldFallsBack ==
    AnsweredWithoutText
    => /\ ret = RawBody
       /\ ui.errors = 0

(* C24: when the fix command's completion request fails for good, the
   command gets no result, an error message is shown exactly when the
   notifications toggle is on, and for a non-2xx answer the message
   carries the status code of the response. *)
C24_FixFailureReported ==
    (caller = "fix" /\ HasReturned /\ RequestFailed)
    => /\ ret.kind = "null"
       /\ ui.errors = (IF config.enableNotifications THEN 1 ELSE 0)
       /\ (config.enableNotifications /\ loc.served.err.response)
            => /\ ui.message.form = "status"
               /\ ui.message.status = loc.served.err.status

(* a failure outcome of the call stems from the chat request or from the
   protocol check, not from the catalog check *)
FailureIsOfRequest ==
    /\ ret.kind = "errorText" => (RequestFailed \/ loc.postCalls = 0)
    /\ ret.kind = "invalidProtocol" => ~StartsWithHttp(loc.baseApiUrl)

(* C25: a failure of the catalog check is only logged: it never turns the
   call into a failure outcome and never shows a message to the user. *)
C25_FailedCheckOnlyLogged ==
    (caller = "chat" /\ loc.check = "failed")
    => /\ ui.warnings = 0
       /\ ui.errors = 0
       /\ HasReturned => FailureIsOfRequest

(* C25 amended: a failure of the catalog check is logged and, when the
   error is an Error object, reported to the user in a warning message;
   it never turns the call into a failure outcome: the call goes on and
   returns what the protocol check and the chat request yield. *)
C25_FailedCheckWarns ==
    (caller = "chat" /\ loc.check = "failed")
    => /\ ui.warnings = (IF MaxRetries >= 0 THEN 1 ELSE 0)
       /\ ui.errors = 0
       /\ ui.prompts = depth
       /\ HasReturned
            => /\ ret.kind \in {"reply", "rawBody", "errorText", "invalidProtocol"}
               /\ FailureIsOfRequest

(* C25 witness: the catalog check failed, the warning was shown and the
   chat request was answered *)
C25_Witness ==
    /\ caller = "chat"
    /\ loc.check = "failed"
    /\ ui.warnings = 1
    /\ ret = Reply
    /\ loc.served.kind = "value"

(* C26: getAvailableModels never throws to its caller: on every failure
   of the catalog request it returns the empty sequence, and on success
   exactly the names of the catalog's entries, in their order. *)
C26_ListModelsNeverThrows ==
    (caller = "list" /\ HasReturned)
    => /\ ret.kind = "names"
       /\ loc.served.kind = "error" => ret.val = <<>>
       /\ loc.served.kind = "value"
            => /\ Len(ret.val) = Len(loc.entries)
               /\ \A i \in 1..Len(loc.entries) : ret.val[i] = loc.entries[i].name
       /\ ui = NothingShown

(* C26 witness: a catalog of two entries was returned as their two names,
   in the order of the entries *)
C26_Witness ==
    /\ caller = "list"
    /\ loc.entries = <<Entry("foo"), Entry("bar")>>
    /\ ret.val = <<"foo", "bar">>

(***************************************************************************)
(* Part 3: the fix command.  The handler runs against a workbench the user *)
(* keeps acting on: while the correction is awaited they may cancel,       *)
(* activate another editor, close the editor or change the selection.      *)
(***************************************************************************)
FixOptions == {o \in ClientOptions : o.maxRetries >= 0}

(* the workbenches the command may start on; e2 may show the document of e1 *)
FixHosts ==
    {h \in [active : {"none", "e1"},
            document : [Editors -> Documents],
            selection : [Editors -> Selections],
            text : [Documents -> {"original"}],
            settingsEdited : {FALSE}] :
        /\ h.document["e1"] = "d1"
        /\ h.selection["e2"] # "empty"}

InitFix ==
    /\ options \in FixOptions
    /\ live = {}
    /\ opScript = [c \in Calls |-> [first |-> PlainError, rest |-> PlainError, k |-> 0]]
    /\ predArg = [c \in Calls |-> "default"]
    /\ IdleCalls
    /\ caller = "fix"
    /\ config \in ClientConfigs
    /\ config.ollamaApiUrl.scheme = "http"
    /\ config.userModel = "foo"
    /\ config.workspaceModel = "unset"
    /\ config.retry = options
    /\ cmd = NoCommand
    /\ host \in FixHosts
    /\ SideIdle
    /\ fpc = "idle"
    /\ depth = 0
    /\ loc = NoLocals
    /\ net = <<>>
    /\ ui = NothingShown
    /\ ret = NoReturn

NextFix ==
    \/ FixCommand
    \/ FixInvoke
    \/ FixSettles
    \/ EditSettles
    \/ UserCancels
    \/ UserSwitchesEditor
    \/ UserSelects

SpecFix == InitFix /\ [][NextFix]_vars

FixTypeOK ==
    /\ cmd.pc \in {"idle", "progress", "awaitCorrection", "editing", "done"}
    /\ cmd.editor \in Editors \cup {"none"}
    /\ cmd.target \in Editors \cup {"none"}
    /\ cmd.cancelAt \in {"none", "progress", "awaitCorrection"}
    /\ cmd.notes \subseteq {"noEditor", "noSelection", "cancelled", "noChanges",
                           "targetChanged", "updated", "editFailed", "editError"}
    /\ host.active \in Editors \cup {"none"}
    /\ \A d \in Documents : host.text[d] \in {"original", "corrected"}

(***************************************************************************)
(* Vocabulary of the claims about the fix command.                         *)
(***************************************************************************)
TextChanged == \E d \in Documents : host.text[d] = "corrected"

(* the active editor shows the document and the selection of the start *)
TargetIsSame ==
    /\ host.active # "none"
    /\ host.document[host.active] = cmd.document
    /\ host.selection[host.active] = cmd.selection

(***************************************************************************)
(* C27: a document is edited only after getCorrectionFromOllama returned   *)
(* the corrected text and the active editor showed the document and the    *)
(* selection the command started with; only that document is edited; after *)
(* a failure (null), or when the editor, its document or its selection are *)
(* no longer those of the start, every document keeps its text.            *)
(***************************************************************************)
C27_EditOnlyOnSameTarget ==
    /\ TextChanged =>
          /\ cmd.pc = "done"
          /\ ret = Reply
          /\ TargetIsSame
          /\ \A d \in Documents : host.text[d] = "corrected" => d = cmd.document
    /\ cmd.pc = "editing" => ret = Reply /\ TargetIsSame
    /\ (cmd.pc = "done" /\ (ret.kind = "null" \/ ~TargetIsSame)) => ~TextChanged

C27_Witness ==
    /\ host.text["d1"] = "corrected"
    /\ ret = Reply
    /\ "updated" \in cmd.notes
    /\ host.active = cmd.editor

(***************************************************************************)
(* C28: when the user cancelled before the task called the client, no      *)
(* request is ever sent; when they cancelled before the call returned, no  *)
(* edit is started, no document changes and the handler tells the user     *)
(* nothing but the cancellation.                                           *)
(***************************************************************************)
C28_CancelStopsRequestAndEdit ==
    /\ cmd.cancelAt = "progress" => net = <<>> /\ fpc = "idle" /\ ret = NoReturn
    /\ cmd.cancelled =>
          /\ cmd.pc # "editing"
          /\ ~TextChanged
          /\ cmd.notes = {"cancelled"}

C28_Witness ==
    /\ cmd.cancelled
    /\ cmd.cancelAt = "awaitCorrection"
    /\ cmd.pc = "done"
    /\ ret = Reply
    /\ TargetIsSame

(***************************************************************************)
(* The fix command with withRetry taken step by step: the task awaits      *)
(* getCorrectionFromOllama, whose call of withRetry is call 1, and the     *)
(* user may cancel between any two steps of it.  The predicate ranges over *)
(* the default one and one that retries every failure, so that delays and  *)
(* later attempts occur.                                                   *)
(***************************************************************************)
InitCancel ==
    /\ options \in ConcOptions
    /\ live = {1}
    /\ opScript \in [Calls -> ConcScripts]
    /\ opScript[2] = [first |-> HttpError(503), rest |-> HttpError(503), k |-> 0]
    /\ predArg \in [Calls -> {"default", "always"}]
    /\ predArg[2] = "default"
    /\ IdleCalls
    /\ caller = "fix"
    /\ config = [ollamaApiUrl |-> [scheme |-> "http", rest |-> "ollama:11434"],
                 userModel |-> "foo", workspaceModel |-> "unset",
                 enableNotifications |-> TRUE, retry |-> options]
    /\ cmd = [NoCommand EXCEPT !.pc = "awaitCorrection", !.editor = "e1",
                               !.document = "d1", !.selection = "s1"]
    /\ host = OneEditor
    /\ SideIdle
    /\ fpc = "awaitFix"
    /\ depth = 0
    /\ loc = [NoLocals EXCEPT !.baseApiUrl = config.ollamaApiUrl,
                              !.modelName = ConfigGetModel(config)]
    /\ net = <<>>
    /\ ui = NothingShown
    /\ ret = NoReturn

NextCancel ==
    \/ Next
    \/ UserCancels

SpecCancel == InitCancel /\ [][NextCancel]_vars

(***************************************************************************)
(* C29: withRetry takes no notice of the cancellation of the fix command:  *)
(* cancelled or not, a call that has not settled still has an attempt in   *)
(* flight or a delay pending, and a call that settled made the invocations *)
(* and has the outcome that the operation, the predicate and the options   *)
(* alone determine.                                                        *)
(***************************************************************************)
C29_EngineIgnoresCancellation ==
    /\ pc[1] = "awaitOp" => pending[1] # {}
    /\ pc[1] = "awaitDelay" => timer[1] # {}
    /\ Terminal(1) =>
          /\ settled[1] = withRetry(predArg[1], opScript[1]).out
          /\ opCalls[1] = withRetry(predArg[1], opScript[1]).calls

(* cancelled while the first attempt was in flight; a delay and a second
   attempt followed and the call resolved *)
C29_Witness ==
    /\ cmd.cancelled
    /\ cmd.cancelOps = 1
    /\ pc[1] = "resolved"
    /\ opCalls[1] = 2
    /\ waited[1] # <<>>

(***************************************************************************)
(* Part 4: the settings change between activation and an invocation.  The  *)
(* chat provider keeps the RetryManager its constructor made (`options`    *)
(* from InitClient on); getCorrectionFromOllama makes its own on each call *)
(* (FixInvoke); the URL and the model name are read on each call.          *)
(***************************************************************************)
SettingsEdits(cfg) ==
    {[cfg EXCEPT !.retry.maxRetries = m] : m \in {-1, 0, MaxRetriesBound}}
    \cup {[cfg EXCEPT !.ollamaApiUrl = u] : u \in UrlValues}
    \cup {[cfg EXCEPT !.userModel = n] : n \in {"foo", "bar"}}

(* the user edits one setting while no invocation is running *)
SettingsEdited ==
    /\ fpc = "idle"
    /\ cmd.pc = "idle"
    /\ ~host.settingsEdited
    /\ \E cfg \in SettingsEdits(config) \ {config} : config' = cfg
    /\ host' = [host EXCEPT !.settingsEdited = TRUE]
    /\ UNCHANGED <<caller, fpc, depth, loc, net, ui, ret, cmd>>
    /\ UNCHANGED retryVars
    /\ UNCHANGED sideVars

InitSettings ==
    /\ InitClient
    /\ config.workspaceModel = "unset"
    /\ config.enableNotifications

NextSettings ==
    \/ NextClient
    \/ SettingsEdited

SpecSettings == InitSettings /\ [][NextSettings]_vars

(* an entry point was invoked and runs to its first await *)
JustInvoked == depth = 0 /\ fpc \in {"awaitCatalog", "awaitFix", "awaitList"}

(***************************************************************************)
(* C30: an invocation works with the settings as they are when it is       *)
(* invoked: the URL and the model name it uses are those of the            *)
(* configuration, and the retry options of the engine that runs its        *)
(* request are the retry settings of the configuration.                    *)
(***************************************************************************)
C30_SettingsReadFresh ==
    JustInvoked =>
        /\ loc.baseApiUrl = IF caller = "chat" THEN BaseApiUrl(config.ollamaApiUrl)
                            ELSE config.ollamaApiUrl
        /\ caller \in {"chat", "fix"} =>
              /\ loc.modelName = ConfigGetModel(config)
              /\ options = config.retry

(* what does hold: URL and model name are fresh everywhere, the retry
   options are fresh for the fix command *)
SettingsFreshButChatRetry ==
    JustInvoked =>
        /\ loc.baseApiUrl = IF caller = "chat" THEN BaseApiUrl(config.ollamaApiUrl)
                            ELSE config.ollamaApiUrl
        /\ caller \in {"chat", "fix"} => loc.modelName = ConfigGetModel(config)
        /\ caller = "fix" => options = config.retry

(***************************************************************************)
(* Part 5: the text functions of getCorrectionFromOllama.  A text is a     *)
(* sequence of tokens: "F" is a fence of three backticks, "w" a word       *)
(* character, "n" a newline, "s" a space, "c" any other character, "L" the *)
(* placeholder {language}.                                                 *)
(***************************************************************************)
MaxTextLen == 5

Tokens == {"F", "w", "n", "s", "c"}

TextsOver(alphabet, n) == UNION {[1..k -> alphabet] : k \in 0..n}

Texts == TextsOver(Tokens, MaxTextLen)

IsSpace(ch) == ch \in {"n", "s"}

RECURSIVE TrimStart(_)
TrimStart(t) ==
    IF t # <<>> /\ IsSpace(Head(t)) THEN TrimStart(Tail(t)) ELSE t

RECURSIVE TrimEnd(_)
TrimEnd(t) ==
    IF t # <<>> /\ IsSpace(t[Len(t)]) THEN TrimEnd(SubSeq(t, 1, Len(t) - 1)) ELSE t

(* String.prototype.trim *)
Trim(t) == TrimEnd(TrimStart(t))

Fences(t) == {i \in 1..Len(t) : t[i] = "F"}

Least(S) == CHOOSE i \in S : \A j \in S : i <= j

Greatest(S) == CHOOSE i \in S : \A j \in S : j <= i

(* mutant: the match begins at the last opening fence before the final one *)
MatchStart_LastFence(t) == Greatest(Fences(t) \ {Len(t)})

(***************************************************************************)
(* Where the match of /```(?:\w*\n)?([\s\S]*?)```$/ begins: match() takes  *)
(* the leftmost position at which the pattern matches, and the lazy group  *)
(* runs over fences until the fence that ends the text.                    *)
(***************************************************************************)
MatchStart(t) == Least(Fences(t))

(* the pattern matches: the text ends with a fence and has one before it *)
Matches(t) == t # <<>> /\ t[Len(t)] = "F" /\ Fences(t) # {Len(t)}

(* (?:\w*\n)? after the opening fence at i: the position behind the tag *)
RECURSIVE SkipWord(_, _)
SkipWord(t, i) == IF i <= Len(t) /\ t[i] = "w" THEN SkipWord(t, i + 1) ELSE i

AfterTag(t, i) ==
    LET k == SkipWord(t, i + 1)
    IN  IF k <= Len(t) /\ t[k] = "n" THEN k + 1 ELSE i + 1

(* match[1]: the text between the opening fence with its tag and the end fence *)
Group1(t) == SubSeq(t, AfterTag(t, MatchStart(t)), Len(t) - 1)

(***************************************************************************)
(* The corrected code: the trimmed response, or the trimmed group when the *)
(* pattern matched and the group is not the empty string.                  *)
(***************************************************************************)
extractCode(raw) ==
    LET t == Trim(raw)
    IN  IF Matches(t) /\ Group1(t) # <<>> THEN Trim(Group1(t)) ELSE t

(* the text functions are applied to arguments from bounded sets *)
InitExtract ==
    /\ tx \in [op : {"extract"}, raw : Texts, prefix : {<<>>}, suffix : {<<>>},
               snippet : {<<>>}, language : {<<>>}, out : {<<>>}, again : {<<>>}]

(* the response is turned into the corrected code, and that once more *)
ExtractCode ==
    /\ tx.op = "extract"
    /\ tx' = [tx EXCEPT !.op = "extracted",
                        !.out = extractCode(tx.raw),
                        !.again = extractCode(extractCode(tx.raw))]
    /\ UNCHANGED <<caller, config, fpc, depth, loc, net, ui, ret, cmd, host, view, bar>>
    /\ UNCHANGED retryVars

MaxPrefixLen == 3

(* the templates, snippets and language identifiers the prompt is built from *)
Prefixes == TextsOver({"L", "c", "s"}, MaxPrefixLen)
Suffixes == TextsOver({"L", "c"}, 1)
Snippets == TextsOver({"L", "c", "F"}, 2)
Languages == {<<"w">>, <<"w", "w">>}

(* mutant: every occurrence of the placeholder is replaced *)
RECURSIVE Replace_All(_, _, _)
Replace_All(t, ph, by) ==
    IF t = <<>> THEN <<>>
    ELSE IF Head(t) = ph THEN by \o Replace_All(Tail(t), ph, by)
    ELSE <<Head(t)>> \o Replace_All(Tail(t), ph, by)

(* String.prototype.replace with a string pattern: the first occurrence only *)
RECURSIVE Replace(_, _, _)
Replace(t, ph, by) ==
    IF t = <<>> THEN <<>>
    ELSE IF Head(t) = ph THEN by \o Tail(t)
    ELSE <<Head(t)>> \o Replace(Tail(t), ph, by)

(* prefix.replace('{language}', languageId) + codeSnippet + suffix *)
BuildPrompt(prefix, suffix, snippet, language) ==
    (Replace(prefix, "L", language) \o snippet) \o suffix

InitBuild ==
    /\ tx \in [op : {"build"}, raw : {<<>>}, prefix : Prefixes, suffix : Suffixes,
               snippet : Snippets, language : Languages, out : {<<>>},
               again : {<<>>}]

(* the prompt of a fix is built *)
PromptBuilt ==
    /\ tx.op = "build"
    /\ tx' = [tx EXCEPT !.op = "built",
                        !.out = BuildPrompt(tx.prefix, tx.suffix, tx.snippet,
                                            tx.language)]
    /\ UNCHANGED <<caller, config, fpc, depth, loc, net, ui, ret, cmd, host, view, bar>>
    /\ UNCHANGED retryVars

InitText ==
    /\ options = [maxRetries |-> 3, retryDelay |-> 1000, backoffMultiplier |-> Rat(3, 2)]
    /\ live = {}
    /\ opScript = [c \in Calls |-> [first |-> PlainError, rest |-> PlainError, k |-> 0]]
    /\ predArg = [c \in Calls |-> "default"]
    /\ IdleCalls
    /\ caller = "fix"
    /\ config = [ollamaApiUrl |-> [scheme |-> "http", rest |-> "ollama:11434"],
                 userModel |-> "foo", workspaceModel |-> "unset",
                 enableNotifications |-> TRUE, retry |-> options]
    /\ cmd = NoCommand
    /\ host = OneEditor
    /\ view = NoView
    /\ bar = NoBar
    /\ fpc = "idle"
    /\ depth = 0
    /\ loc = NoLocals
    /\ net = <<>>
    /\ ui = NothingShown
    /\ ret = NoReturn
    /\ InitExtract \/ InitBuild

NextText ==
    \/ ExtractCode
    \/ PromptBuilt

SpecText == InitText /\ [][NextText]_vars

(***************************************************************************)
(* Vocabulary of the claims about the text functions.                      *)
(***************************************************************************)
Extracted == tx.op = "extracted"

(* the trimmed text ends with a fenced block *)
EndsWithBlock(t) == Matches(t)

(* the contents of the last fenced block: what lies between the last two
   fences, without the tag of the opening fence *)
LastBlock(t) ==
    SubSeq(t, AfterTag(t, Greatest(Fences(t) \ {Len(t)})), Len(t) - 1)

(***************************************************************************)
(* C31: when the trimmed response ends with a fenced block the corrected   *)
(* code is the trimmed contents of the last block, otherwise it is the     *)
(* trimmed response.                                                       *)
(***************************************************************************)
C31_LastBlockOnly ==
    Extracted =>
        tx.out = IF EndsWithBlock(Trim(tx.raw)) THEN Trim(LastBlock(Trim(tx.raw)))
                 ELSE Trim(tx.raw)

(***************************************************************************)
(* C32: extracting from the corrected code once more gives the corrected   *)
(* code.                                                                   *)
(***************************************************************************)
C32_ExtractIdempotent == Extracted => tx.again = tx.out

Built == tx.op = "built"

Placeholders(t) == {i \in 1..Len(t) : t[i] = "L"}

(* t occurs in p as a contiguous part, beginning at position k *)
OccursAt(t, p, k) == k + Len(t) - 1 <= Len(p) /\ SubSeq(p, k, k + Len(t) - 1) = t

(***************************************************************************)
(* C33: the prompt is the prefix, with its first placeholder (if it has    *)
(* one) replaced by the language identifier, followed by the snippet and   *)
(* the suffix; the snippet is in it as it was given, right behind the      *)
(* prefix, and every placeholder but the first of the prefix is still      *)
(* there.                                                                  *)
(***************************************************************************)
C33_PromptShape ==
    Built =>
        LET ph == Placeholders(tx.prefix)
            head == IF ph = {} THEN tx.prefix
                    ELSE (SubSeq(tx.prefix, 1, Least(ph) - 1) \o tx.language)
                         \o SubSeq(tx.prefix, Least(ph) + 1, Len(tx.prefix))
        IN  /\ tx.out = (head \o tx.snippet) \o tx.suffix
            /\ OccursAt(tx.snippet, tx.out, Len(head) + 1)
            /\ Cardinality(Placeholders(tx.out)) =
                  (Cardinality(ph) - (IF ph = {} THEN 0 ELSE 1))
                  + Cardinality(Placeholders(tx.snippet))
                  + Cardinality(Placeholders(tx.suffix))

(* a prefix with two placeholders, and one each in the snippet and the suffix *)
C33_Witness ==
    /\ Built
    /\ Cardinality(Placeholders(tx.prefix)) = 2
    /\ Placeholders(tx.snippet) # {}
    /\ Placeholders(tx.suffix) # {}
    /\ Cardinality(Placeholders(tx.out)) = 3

(***************************************************************************)
(* C34: every completion request that is dispatched, of the chat as of the *)
(* fix, has in its body the options with all the sampling parameters.      *)
(***************************************************************************)
C34_EveryRequestCarriesOptions ==
    \A i \in Requests :
        IsPost(i) => "options" \in net[i].payload /\ net[i].options = SamplingKeys

(***************************************************************************)
(* C35: the options withRetry runs with have maxRetries >= 0, a delay > 0  *)
(* and a multiplier >= 1, whatever the configuration holds; a call that    *)
(* ended has invoked the operation at least once and was not rejected with *)
(* undefined.                                                              *)
(***************************************************************************)
C35_PolicyAlwaysValid ==
    /\ options.maxRetries >= 0
    /\ options.retryDelay > 0
    /\ options.backoffMultiplier[1] >= options.backoffMultiplier[2]
    /\ Terminal(1) =>
          /\ opCalls[1] >= 1
          /\ ~(pc[1] = "rejected" /\ settled[1].err = UndefinedError)

(* the write of the picked model name was rejected in the current invocation *)
UpdateRejected == loc.newModel # "" /\ fpc \in {"awaitPost", "returned"}

(***************************************************************************)
(* C36: after the write of the picked model name was rejected, the         *)
(* invocation has dispatched no chat request that names the model its      *)
(* catalog check found missing.                                            *)
(***************************************************************************)
C36_FailedWriteSendsNoRequest ==
    UpdateRejected =>
        \A i \in Requests :
            (IsPost(i) /\ net[i].level = depth) =>
                ~(net[i].model = loc.modelName
                  /\ loc.modelName \notin loc.availableModels)

(***************************************************************************)
(* Part 6: the chat panel.  A message of the webview is handled by         *)
(* handleChatMessage, which awaits getOllamaResponse; the user may close   *)
(* the panel meanwhile, and dispose() clears the reference to it.          *)
(***************************************************************************)
InitChat ==
    /\ InitClient
    /\ caller = "chat"

(* the panel is closed while the handler awaits the response: dispose() *)
PanelDisposed ==
    /\ view.panel = "open"
    /\ view.hpc = "awaitResponse"
    /\ fpc # "returned"
    /\ view' = [view EXCEPT !.panel = "disposed"]
    /\ UNCHANGED <<caller, config, fpc, depth, loc, net, ui, ret, cmd, host, bar, tx>>
    /\ UNCHANGED retryVars

(* the steps of one chat message *)
NextMessage ==
    \/ ChatInvoke
    \/ CatalogSettles
    \/ ChoiceMade
    \/ PickMade
    \/ UpdateSettles
    \/ PostSettles
    \/ InstallFinishes

NextChat ==
    \/ NextMessage
    \/ PanelDisposed

SpecChat == InitChat /\ [][NextChat]_vars

(* the panel stays open; the request and the prompts of the user terminate *)
SpecChatOpen == InitChat /\ [][NextMessage]_vars /\ WF_vars(NextMessage)

ChatTypeOK ==
    /\ view.panel \in {"none", "open", "disposed"}
    /\ view.hpc \in {"idle", "awaitResponse", "done", "rejected"}
    /\ view.raised \in {"none", "TypeError"}
    /\ \A i \in 1..Len(view.posted) :
          view.posted[i] \in {"user", "loadingOn", "assistant", "error", "loadingOff"}

(***************************************************************************)
(* C37: when the panel was disposed while the request was in flight and    *)
(* the request has completed, the handler has posted nothing more than the *)
(* two messages of its start and has completed without raising an error.   *)
(***************************************************************************)
C37_DisposedPanelHandled ==
    (view.panel = "disposed" /\ fpc = "returned") =>
        /\ view.posted = <<"user", "loadingOn">>
        /\ view.hpc = "done"
        /\ view.raised = "none"

Posted(m) == \E i \in 1..Len(view.posted) : view.posted[i] = m

(* what the handler has posted, by its position *)
PostedInOrder ==
    /\ view.hpc = "idle" => view.posted = <<>>
    /\ view.hpc = "awaitResponse" => view.posted = <<"user", "loadingOn">>
    /\ Requests # {} => SubSeq(view.posted, 1, 2) = <<"user", "loadingOn">>
    /\ fpc = "returned" =>
          /\ view.hpc = "done"
          /\ Len(view.posted) = 4
          /\ SubSeq(view.posted, 1, 2) = <<"user", "loadingOn">>
          /\ view.posted[3] \in {"assistant", "error"}
          /\ view.posted[4] = "loadingOff"

(***************************************************************************)
(* C38: with the panel open, the handler posts the user message and        *)
(* loading = true before any request, then one reply, then loading =       *)
(* false; and once loading = true is posted, loading = false is posted     *)
(* eventually, whether the request succeeded or failed.                    *)
(***************************************************************************)
C38_LoadingAlwaysCleared ==
    /\ []PostedInOrder
    /\ Posted("loadingOn") ~> Posted("loadingOff")

(* the request failed, the reply was posted and loading was cleared *)
C38_Witness ==
    /\ view.posted = <<"user", "loadingOn", "assistant", "loadingOff">>
    /\ ret.kind = "errorText"
    /\ RequestFailed

(***************************************************************************)
(* Part 7: the status checks of activate.  checkApiStatus is called at     *)
(* activation and again by the interval timer; each call runs its GET      *)
(* through withRetry on the one RetryManager of activate, with the default *)
(* predicate, and writes the status bar when its call has settled.  Check  *)
(* c is call c of withRetry.                                               *)
(***************************************************************************)
InitPoll ==
    /\ options \in ConcOptions
    /\ live = {}
    /\ opScript \in [Calls -> ConcScripts]
    /\ predArg = [c \in Calls |-> "default"]
    /\ IdleCalls
    /\ caller = "none"
    /\ config = [ollamaApiUrl |-> [scheme |-> "http", rest |-> "ollama:11434"],
                 userModel |-> "foo", workspaceModel |-> "unset",
                 enableNotifications |-> TRUE, retry |-> options]
    /\ cmd = NoCommand
    /\ host = OneEditor
    /\ view = NoView
    /\ bar = NoBar
    /\ tx = NoText
    /\ fpc = "idle"
    /\ depth = 0
    /\ loc = NoLocals
    /\ net = <<>>
    /\ ui = NothingShown
    /\ ret = NoReturn

SeqRange(q) == {q[i] : i \in 1..Len(q)}

(* a check whose withRetry settled and whose continuation is due *)
ReportDue(c) == c \in live /\ Terminal(c) /\ c \notin SeqRange(bar.reported)

(***************************************************************************)
(* checkApiStatus is called, by activate or by the interval timer, and     *)
(* runs to the await inside withRetry: the first GET is dispatched.        *)
(***************************************************************************)
PollStarts(c) ==
    /\ c = Len(bar.started) + 1
    /\ \A d \in Calls : ~ReportDue(d)
    /\ live' = live \cup {c}
    /\ bar' = [bar EXCEPT !.started = Append(@, c)]
    /\ lastError' = [lastError EXCEPT ![c] = UndefinedError]
    /\ delay' = [delay EXCEPT ![c] = InitialDelay]
    /\ StartAttempt(c, 1, UndefinedError)
    /\ UNCHANGED <<options, opScript, predArg, timer, waited, predOut>>
    /\ UNCHANGED <<caller, config, fpc, depth, loc, net, ui, ret, cmd, host, view, tx>>

(* mutant: a check that is not the last one started leaves the bar alone *)
StatusWritten_IfLatest(b, c, out) ==
    IF c = b.started[Len(b.started)]
    THEN [b EXCEPT !.text = IF out.kind = "value" THEN "Active" ELSE "Offline",
                   !.reported = Append(@, c)]
    ELSE [b EXCEPT !.reported = Append(@, c)]

(* statusBarItem.text after the await: 'Ollama: Active' or 'Ollama: Offline' *)
StatusWritten(b, c, out) ==
    [b EXCEPT !.text = IF out.kind = "value" THEN "Active" ELSE "Offline",
              !.reported = Append(@, c)]

(* the continuation of checkApiStatus behind its await, right after the
   call of withRetry has settled *)
PollReports(c) ==
    /\ ReportDue(c)
    /\ bar' = StatusWritten(bar, c, settled[c])
    /\ UNCHANGED <<caller, config, fpc, depth, loc, net, ui, ret, cmd, host, view, tx>>
    /\ UNCHANGED retryVars

(* the GET of a check settles *)
PollSettles(c) ==
    /\ \A d \in Calls : ~ReportDue(d)
    /\ OpResolves(c) \/ OpRejects(c)

NextPoll ==
    \E c \in Calls :
        \/ PollStarts(c)
        \/ PollSettles(c)
        \/ PollReports(c)

SpecPoll == InitPoll /\ [][NextPoll]_vars

StatusOf(out) == IF out.kind = "value" THEN "Active" ELSE "Offline"

(***************************************************************************)
(* C39: once the check that was started last has written the status bar,   *)
(* the bar shows its outcome: a check started before it that finishes      *)
(* after it does not overwrite it.                                         *)
(***************************************************************************)
C39_LatestCheckWins ==
    LET last == bar.started[Len(bar.started)]
    IN  (bar.started # <<>> /\ last \in SeqRange(bar.reported)) =>
            bar.text = StatusOf(settled[last])

====
